---- MODULE Spec2Model ----
(***************************************************************************)
(* A model of the bookkeeping-text parser of achi9444/smimple and of its   *)
(* learned-preference store.                                               *)
(*                                                                         *)
(* The repository holds two snapshots of the parser:                       *)
(*   "part_000"      src/unnamed/part_000 (lines 247-702)                  *)
(*   "geminiService" src/services/geminiService.ts                         *)
(* They share most helpers and differ in the keyword tables, in the type   *)
(* classification of parseTransactionLocal and in the gate of              *)
(* parseTransactionAI.  Operators that differ take the snapshot as their   *)
(* first argument.                                                         *)
(*                                                                         *)
(* Text.  A JavaScript string is a sequence of characters.  An ASCII       *)
(* character is the one-character string of itself; any other character is *)
(* the string "U" followed by its four hex digits (U73FE U91D1 is the      *)
(* word for cash; the backquote is "U0060").                               *)
(*                                                                         *)
(* Numbers.  A score is a rational <<n, d>> with d > 0, compared by cross  *)
(* multiplication.                                                         *)
(***************************************************************************)
EXTENDS Integers, Sequences, FiniteSets, TLC

\* ------------------------------------------------------------------ values

\* JavaScript's undefined for an optional string field.  No text equals it:
\* every character of a text is one ASCII character or "Uxxxx".
Undefined == <<"undefined">>

Truthy(s) == s # Undefined /\ s # <<>>

\* a || b and a ?? b on optional strings
OrElse(a, b) == IF Truthy(a) THEN a ELSE b
Coalesce(a, b) == IF a # Undefined THEN a ELSE b

Min(S) == CHOOSE x \in S : \A y \in S : x <= y
Max2(a, b) == IF a >= b THEN a ELSE b

RECURSIVE GCD(_, _)
GCD(a, b) == IF b = 0 THEN a ELSE GCD(b, a % b)
\* a rational in lowest terms
RatReduce(r) == <<r[1] \div GCD(r[1], r[2]), r[2] \div GCD(r[1], r[2])>>

RatLess(a, b) == a # b /\ a[1] * b[2] < b[1] * a[2]
RatGeq(a, b) == ~RatLess(a, b)
RatMax(a, b) == IF RatLess(a, b) THEN b ELSE a

RECURSIVE RatMaxOver(_, _)
RatMaxOver(s, k) ==
  IF k > Len(s) THEN <<0, 1>> ELSE RatMax(s[k], RatMaxOver(s, k + 1))

\* ------------------------------------------------------------ characters

Digits == {"0", "1", "2", "3", "4", "5", "6", "7", "8", "9"}

UpperChars == <<"A", "B", "C", "D", "E", "F", "G", "H", "I", "J", "K", "L", "M",
                "N", "O", "P", "Q", "R", "S", "T", "U", "V", "W", "X", "Y", "Z">>
LowerChars == <<"a", "b", "c", "d", "e", "f", "g", "h", "i", "j", "k", "l", "m",
                "n", "o", "p", "q", "r", "s", "t", "u", "v", "w", "x", "y", "z">>

\* \s of a JavaScript regular expression (space, tab, line feed, U+3000)
WhiteSpace == {" ", "\t", "\n", "U3000"}

\* \w of a JavaScript regular expression: ASCII letters, digits and "_"
WordChars ==
  Digits \cup {"_"} \cup {UpperChars[i] : i \in 1..26} \cup {LowerChars[i] : i \in 1..26}

\* the character class of normalizeLoose and normalizeDesc
PunctChars ==
  {".", ",", "!", "?", "UFF0C", "U3002", "UFF01", "UFF1F", "U3001", ":", ";",
   "UFF1A", "UFF1B", "'", "\"", "U0060", "~", "@", "#", "$", "%", "^", "&", "*",
   "(", ")", "_", "+", "=", "-", "[", "]", "{", "}", "<", ">", "\\", "/", "|"}

toLowerCaseChar(c) ==
  IF \E i \in 1..26 : UpperChars[i] = c
    THEN LowerChars[CHOOSE i \in 1..26 : UpperChars[i] = c]
    ELSE c

toLowerCase(text) == [i \in DOMAIN text |-> toLowerCaseChar(text[i])]

\* ------------------------------------------------------- string helpers

CharSet(text) == {text[i] : i \in DOMAIN text}

\* text.slice(from) with a 0-based from
SliceFrom(text, from) == SubSeq(text, from + 1, Len(text))
\* text.slice(0, to) with a 0-based exclusive to
SliceTo(text, to) == SubSeq(text, 1, to)

\* tok occurs in text at the 0-based index i
MatchesAt(text, tok, i) ==
  i >= 0 /\ i + Len(tok) <= Len(text) /\ SubSeq(text, i + 1, i + Len(tok)) = tok

\* text.includes(tok)
Includes(text, tok) == \E i \in 0..(Len(text) - Len(tok)) : MatchesAt(text, tok, i)

\* text.indexOf(tok): the first 0-based index, -1 when absent
IndexOf(text, tok) ==
  LET at == {i \in 0..(Len(text) - Len(tok)) : MatchesAt(text, tok, i)}
  IN IF at = {} THEN -1 ELSE Min(at)

\* text.trim()
RECURSIVE TrimLeft(_)
TrimLeft(text) ==
  IF text # <<>> /\ Head(text) \in WhiteSpace THEN TrimLeft(Tail(text)) ELSE text
RECURSIVE TrimRight(_)
TrimRight(text) ==
  IF text # <<>> /\ text[Len(text)] \in WhiteSpace
    THEN TrimRight(SubSeq(text, 1, Len(text) - 1))
    ELSE text
Trim(text) == TrimRight(TrimLeft(text))

\* the first occurrence of every element, in order (Array.from(new Set(xs)))
RECURSIVE Dedupe(_)
Dedupe(xs) ==
  IF xs = <<>> THEN <<>>
  ELSE LET init == Dedupe(SubSeq(xs, 1, Len(xs) - 1))
           last == xs[Len(xs)]
       IN IF \E i \in DOMAIN init : init[i] = last THEN init ELSE Append(init, last)

\* xs.find(p): the first element satisfying Test, Undefined when none
FindFirst(xs, Test(_)) ==
  IF \E i \in DOMAIN xs : Test(xs[i])
    THEN xs[Min({i \in DOMAIN xs : Test(xs[i])})]
    ELSE Undefined

\* tokens.some((t) => text.includes(t))
hasAnyToken(text, tokens) == \E k \in DOMAIN tokens : Includes(text, tokens[k])
hasAnyKeyword(text, keywords) == \E k \in DOMAIN keywords : Includes(text, keywords[k])

\* regex.test(text) for an alternation of literals
TestAlternatives(text, alts) == \E k \in DOMAIN alts : Includes(text, alts[k])
\* the same under the i flag
TestAlternativesI(text, alts) == TestAlternatives(toLowerCase(text), alts)

\* ---------------------------------------------------------- keyword tables
\* (the words of each table are listed in the comment above it)

\* 轉帳 轉賬 轉到 轉入 轉出 匯款 匯入 匯出
TRANSFER_KEYWORDS ==
  << <<"U8F49", "U5E33">>, <<"U8F49", "U8CEC">>, <<"U8F49", "U5230">>,
     <<"U8F49", "U5165">>, <<"U8F49", "U51FA">>, <<"U532F", "U6B3E">>,
     <<"U532F", "U5165">>, <<"U532F", "U51FA">> >>

\* part_000: 薪水 薪資 收入 進帳 入帳 獎金 退款 紅包 股利 股息 配息 分紅 回饋
\* geminiService: 薪水 薪資 收入 進帳 入帳 獎金 退款
INCOME_KEYWORDS(snapshot) ==
  IF snapshot = "part_000"
    THEN << <<"U85AA", "U6C34">>, <<"U85AA", "U8CC7">>, <<"U6536", "U5165">>,
            <<"U9032", "U5E33">>, <<"U5165", "U5E33">>, <<"U734E", "U91D1">>,
            <<"U9000", "U6B3E">>, <<"U7D05", "U5305">>, <<"U80A1", "U5229">>,
            <<"U80A1", "U606F">>, <<"U914D", "U606F">>, <<"U5206", "U7D05">>,
            <<"U56DE", "U994B">> >>
    ELSE << <<"U85AA", "U6C34">>, <<"U85AA", "U8CC7">>, <<"U6536", "U5165">>,
            <<"U9032", "U5E33">>, <<"U5165", "U5E33">>, <<"U734E", "U91D1">>,
            <<"U9000", "U6B3E">> >>

\* 早餐 午餐 晚餐 餐 便當 飲料 咖啡 宵夜 吃飯
FOOD_KEYWORDS ==
  << <<"U65E9", "U9910">>, <<"U5348", "U9910">>, <<"U665A", "U9910">>, <<"U9910">>,
     <<"U4FBF", "U7576">>, <<"U98F2", "U6599">>, <<"U5496", "U5561">>,
     <<"U5BB5", "U591C">>, <<"U5403", "U98EF">> >>

\* part_000: 交通 車資 車錢 捷運 公車 計程車 taxi uber 高鐵 火車 停車 過路費 油錢 加油
\* geminiService: 捷運 公車 計程車 taxi uber 高鐵 火車 停車 油錢 加油
TRANSPORT_KEYWORDS(snapshot) ==
  IF snapshot = "part_000"
    THEN << <<"U4EA4", "U901A">>, <<"U8ECA", "U8CC7">>, <<"U8ECA", "U9322">>,
            <<"U6377", "U904B">>, <<"U516C", "U8ECA">>, <<"U8A08", "U7A0B", "U8ECA">>,
            <<"t", "a", "x", "i">>, <<"u", "b", "e", "r">>, <<"U9AD8", "U9435">>,
            <<"U706B", "U8ECA">>, <<"U505C", "U8ECA">>, <<"U904E", "U8DEF", "U8CBB">>,
            <<"U6CB9", "U9322">>, <<"U52A0", "U6CB9">> >>
    ELSE << <<"U6377", "U904B">>, <<"U516C", "U8ECA">>, <<"U8A08", "U7A0B", "U8ECA">>,
            <<"t", "a", "x", "i">>, <<"u", "b", "e", "r">>, <<"U9AD8", "U9435">>,
            <<"U706B", "U8ECA">>, <<"U505C", "U8ECA">>, <<"U6CB9", "U9322">>,
            <<"U52A0", "U6CB9">> >>

\* 超商 全聯 家樂福 日用品 文具 用品 購物 生活
DAILY_KEYWORDS ==
  << <<"U8D85", "U5546">>, <<"U5168", "U806F">>, <<"U5BB6", "U6A02", "U798F">>,
     <<"U65E5", "U7528", "U54C1">>, <<"U6587", "U5177">>, <<"U7528", "U54C1">>,
     <<"U8CFC", "U7269">>, <<"U751F", "U6D3B">> >>

\* 房租 租金 水費 電費 瓦斯 家電 家具 修繕
HOUSE_KEYWORDS ==
  << <<"U623F", "U79DF">>, <<"U79DF", "U91D1">>, <<"U6C34", "U8CBB">>,
     <<"U96FB", "U8CBB">>, <<"U74E6", "U65AF">>, <<"U5BB6", "U96FB">>,
     <<"U5BB6", "U5177">>, <<"U4FEE", "U7E55">> >>

\* 電影 遊戲 ktv 唱歌 聚餐 旅遊 娛樂 演唱會 串流
PLAY_KEYWORDS ==
  << <<"U96FB", "U5F71">>, <<"U904A", "U6232">>, <<"k", "t", "v">>, <<"U5531", "U6B4C">>,
     <<"U805A", "U9910">>, <<"U65C5", "U904A">>, <<"U5A1B", "U6A02">>,
     <<"U6F14", "U5531", "U6703">>, <<"U4E32", "U6D41">> >>

\* 看醫生 診所 醫院 藥 掛號 健檢 牙醫 醫療
HEALTH_KEYWORDS ==
  << <<"U770B", "U91AB", "U751F">>, <<"U8A3A", "U6240">>, <<"U91AB", "U9662">>,
     <<"U85E5">>, <<"U639B", "U865F">>, <<"U5065", "U6AA2">>, <<"U7259", "U91AB">>,
     <<"U91AB", "U7642">> >>

\* 薪水 薪資 月薪 年終
SALARY_KEYWORDS ==
  << <<"U85AA", "U6C34">>, <<"U85AA", "U8CC7">>, <<"U6708", "U85AA">>,
     <<"U5E74", "U7D42">> >>

\* 獎金 紅包 分紅
BONUS_KEYWORDS ==
  << <<"U734E", "U91D1">>, <<"U7D05", "U5305">>, <<"U5206", "U7D05">> >>

\* 股利 利息 投資 基金 股票 配息
INVEST_KEYWORDS ==
  << <<"U80A1", "U5229">>, <<"U5229", "U606F">>, <<"U6295", "U8CC7">>,
     <<"U57FA", "U91D1">>, <<"U80A1", "U7968">>, <<"U914D", "U606F">> >>

\* 現金 cash wallet
CASH_HINT_KEYWORDS ==
  << <<"U73FE", "U91D1">>, <<"c", "a", "s", "h">>, <<"w", "a", "l", "l", "e", "t">> >>

\* 帳戶 账户 戶頭 户头 銀行 银行 bank account acc
BANK_HINT_KEYWORDS ==
  << <<"U5E33", "U6236">>, <<"U8D26", "U6237">>, <<"U6236", "U982D">>,
     <<"U6237", "U5934">>, <<"U9280", "U884C">>, <<"U94F6", "U884C">>,
     <<"b", "a", "n", "k">>, <<"a", "c", "c", "o", "u", "n", "t">>, <<"a", "c", "c">> >>

\* Regular expressions that are alternations of literals: their alternatives,
\* in the order of the source.

\* /(帳戶|账户|戶頭|户头|銀行|银行|bank|acc|account|wallet|card|卡)/  the suffix alternation of accountAliases
ACCOUNT_SUFFIXES ==
  << <<"U5E33", "U6236">>, <<"U8D26", "U6237">>, <<"U6236", "U982D">>,
     <<"U6237", "U5934">>, <<"U9280", "U884C">>, <<"U94F6", "U884C">>,
     <<"b", "a", "n", "k">>, <<"a", "c", "c">>, <<"a", "c", "c", "o", "u", "n", "t">>,
     <<"w", "a", "l", "l", "e", "t">>, <<"c", "a", "r", "d">>, <<"U5361">> >>

\* /(轉帳|轉賬|轉出|轉入|轉|匯款|匯出|匯入|匯|提領|提款|領錢|領)/
TRANSFER_VERBS ==
  << <<"U8F49", "U5E33">>, <<"U8F49", "U8CEC">>, <<"U8F49", "U51FA">>,
     <<"U8F49", "U5165">>, <<"U8F49">>, <<"U532F", "U6B3E">>, <<"U532F", "U51FA">>,
     <<"U532F", "U5165">>, <<"U532F">>, <<"U63D0", "U9818">>, <<"U63D0", "U6B3E">>,
     <<"U9818", "U9322">>, <<"U9818">> >>

\* /(到|至|給|進|入)/
TRANSFER_CONNECTORS ==
  << <<"U5230">>, <<"U81F3">>, <<"U7D66">>, <<"U9032">>, <<"U5165">> >>

\* /(收到|收|入帳|進帳|存入|領到|拿到|給我|發給我)/
INCOME_VERBS ==
  << <<"U6536", "U5230">>, <<"U6536">>, <<"U5165", "U5E33">>, <<"U9032", "U5E33">>,
     <<"U5B58", "U5165">>, <<"U9818", "U5230">>, <<"U62FF", "U5230">>,
     <<"U7D66", "U6211">>, <<"U767C", "U7D66", "U6211">> >>

\* /(今天|昨日|昨天|前天|today|yesterday)/  the day words cleanDescription strips
RELATIVE_DAY_WORDS ==
  << <<"U4ECA", "U5929">>, <<"U6628", "U65E5">>, <<"U6628", "U5929">>,
     <<"U524D", "U5929">>, <<"t", "o", "d", "a", "y">>,
     <<"y", "e", "s", "t", "e", "r", "d", "a", "y">> >>

\* /(現金|cash|帳戶|账户|戶頭|银行|銀行|bank|acc|account)/  the account words cleanDescription strips
ACCOUNT_KEYWORD_WORDS ==
  << <<"U73FE", "U91D1">>, <<"c", "a", "s", "h">>, <<"U5E33", "U6236">>,
     <<"U8D26", "U6237">>, <<"U6236", "U982D">>, <<"U94F6", "U884C">>,
     <<"U9280", "U884C">>, <<"b", "a", "n", "k">>, <<"a", "c", "c">>,
     <<"a", "c", "c", "o", "u", "n", "t">> >>

\* /(薪|salary|工作|收入)/
SALARY_PATTERN ==
  << <<"U85AA">>, <<"s", "a", "l", "a", "r", "y">>, <<"U5DE5", "U4F5C">>,
     <<"U6536", "U5165">> >>

\* /(獎|紅包|bonus)/
BONUS_PATTERN ==
  << <<"U734E">>, <<"U7D05", "U5305">>, <<"b", "o", "n", "u", "s">> >>

\* /(投資|利息|股利|基金|股票|配息|invest)/
INVEST_PATTERN ==
  << <<"U6295", "U8CC7">>, <<"U5229", "U606F">>, <<"U80A1", "U5229">>,
     <<"U57FA", "U91D1">>, <<"U80A1", "U7968">>, <<"U914D", "U606F">>,
     <<"i", "n", "v", "e", "s", "t">> >>

\* /(餐|飲|食|food|meal|eat)/
FOOD_PATTERN ==
  << <<"U9910">>, <<"U98F2">>, <<"U98DF">>, <<"f", "o", "o", "d">>,
     <<"m", "e", "a", "l">>, <<"e", "a", "t">> >>

\* /(交|車|運|transport|traffic|commute)/
TRANSPORT_PATTERN ==
  << <<"U4EA4">>, <<"U8ECA">>, <<"U904B">>,
     <<"t", "r", "a", "n", "s", "p", "o", "r", "t">>,
     <<"t", "r", "a", "f", "f", "i", "c">>, <<"c", "o", "m", "m", "u", "t", "e">> >>

\* /(交通|車資|車錢|捷運|公車|計程|uber|高鐵|火車|停車|過路費|油錢|加油)/  the extra transport test of part_000
TRANSPORT_TEXT_PATTERN ==
  << <<"U4EA4", "U901A">>, <<"U8ECA", "U8CC7">>, <<"U8ECA", "U9322">>,
     <<"U6377", "U904B">>, <<"U516C", "U8ECA">>, <<"U8A08", "U7A0B">>,
     <<"u", "b", "e", "r">>, <<"U9AD8", "U9435">>, <<"U706B", "U8ECA">>,
     <<"U505C", "U8ECA">>, <<"U904E", "U8DEF", "U8CBB">>, <<"U6CB9", "U9322">>,
     <<"U52A0", "U6CB9">> >>

\* /(日常|生活|購物|用品|雜支|shop)/
DAILY_PATTERN ==
  << <<"U65E5", "U5E38">>, <<"U751F", "U6D3B">>, <<"U8CFC", "U7269">>,
     <<"U7528", "U54C1">>, <<"U96DC", "U652F">>, <<"s", "h", "o", "p">> >>

\* /(居家|住|房|租|家|home|house)/
HOUSE_PATTERN ==
  << <<"U5C45", "U5BB6">>, <<"U4F4F">>, <<"U623F">>, <<"U79DF">>, <<"U5BB6">>,
     <<"h", "o", "m", "e">>, <<"h", "o", "u", "s", "e">> >>

\* /(娛|樂|遊|電影|休閒|play|fun)/
PLAY_PATTERN ==
  << <<"U5A1B">>, <<"U6A02">>, <<"U904A">>, <<"U96FB", "U5F71">>, <<"U4F11", "U9592">>,
     <<"p", "l", "a", "y">>, <<"f", "u", "n">> >>

\* /(醫|療|健康|health|clinic)/
HEALTH_PATTERN ==
  << <<"U91AB">>, <<"U7642">>, <<"U5065", "U5EB7">>, <<"h", "e", "a", "l", "t", "h">>,
     <<"c", "l", "i", "n", "i", "c">> >>

\* the words the code names literally
\* 昨天
YESTERDAY == <<"U6628", "U5929">>
\* 前天
DAY_BEFORE_YESTERDAY == <<"U524D", "U5929">>
\* 現金
CASH_WORD == <<"U73FE", "U91D1">>
\* 轉帳
TRANSFER_CATEGORY == <<"U8F49", "U5E33">>
\* income
INCOME_WORD == <<"i", "n", "c", "o", "m", "e">>

\* ---------------------------------------------------------- the normalizer

\* normalizeLoose that removes the punctuation at the start of the text only,
\* one character of it
normalizeLooseHeadOnly(text) ==
  LET unspaced == SelectSeq(toLowerCase(text), LAMBDA c : c \notin WhiteSpace)
  IN IF unspaced # <<>> /\ Head(unspaced) \in PunctChars THEN Tail(unspaced) ELSE unspaced

\* text.toLowerCase().replace(/\s+/g, '').replace(/[punctuation]/g, '')
normalizeLoose(text) ==
  SelectSeq(SelectSeq(toLowerCase(text), LAMBDA c : c \notin WhiteSpace),
            LAMBDA c : c \notin PunctChars)

\* ------------------------------------------------------ the account resolver

SCORE_THRESHOLD == <<11, 20>>     \* 0.55

\* The sums of 1.2, 0.8 and -0.4 the code can form.  1.2 - 0.4 is
\* 0.7999999999999999 in IEEE doubles, just below the 0.8 of a bank boost; it is
\* 7999/10000 here, which orders the same against every other score the code
\* forms (an integer, 1.2, 0.8, -0.4, or k/n with n below 2000).
HintBoostOf(inputCash, inputBank, accountCash, accountBank) ==
  CASE inputCash /\ accountCash /\ inputBank -> <<7999, 10000>>
    [] inputCash /\ accountCash /\ ~inputBank -> <<6, 5>>
    [] inputBank /\ accountBank /\ ~accountCash -> <<4, 5>>
    [] ~inputCash /\ inputBank /\ accountCash -> <<-2, 5>>
    [] OTHER -> <<0, 1>>

getAccountHintBoost(inputNormalized, accountNormalized) ==
  HintBoostOf(hasAnyToken(inputNormalized, CASH_HINT_KEYWORDS),
              hasAnyToken(inputNormalized, BANK_HINT_KEYWORDS),
              hasAnyToken(accountNormalized, CASH_HINT_KEYWORDS),
              hasAnyToken(accountNormalized, BANK_HINT_KEYWORDS))

SimilarityOfSets(aSet, bSet) ==
  <<Cardinality(aSet \cap bSet), Max2(Cardinality(aSet), Cardinality(bSet))>>

similarityByChars(a, b) ==
  IF a = <<>> \/ b = <<>> THEN <<0, 1>>
  ELSE IF a = b THEN <<1, 1>>
  ELSE SimilarityOfSets(CharSet(a), CharSet(b))

\* the lengths of the alternatives of ACCOUNT_SUFFIXES that end the text
SuffixLengths(normalized) ==
  {Len(ACCOUNT_SUFFIXES[k]) : k \in {n \in DOMAIN ACCOUNT_SUFFIXES :
      MatchesAt(normalized, ACCOUNT_SUFFIXES[n], Len(normalized) - Len(ACCOUNT_SUFFIXES[n]))}}

CutSuffix(normalized, lengths) ==
  IF lengths = {} THEN normalized
  ELSE SubSeq(normalized, 1, Len(normalized) - (CHOOSE n \in lengths : \A m \in lengths : m <= n))

\* normalized.replace(/(suffix|...)$/g, ''): the leftmost match wins, which is the
\* longest alternative that ends the string
StripAccountSuffix(normalized) == CutSuffix(normalized, SuffixLengths(normalized))

\* text.split(/[\s_\-]+/): the fragments between runs of separators
RECURSIVE SplitOnSeparators(_, _)
SplitOnSeparators(text, cur) ==
  IF text = <<>> THEN <<cur>>
  ELSE IF Head(text) \in WhiteSpace \cup {"_", "-"}
    THEN IF Len(text) >= 2 /\ text[2] \in WhiteSpace \cup {"_", "-"}
           THEN SplitOnSeparators(Tail(text), cur)
           ELSE <<cur>> \o SplitOnSeparators(Tail(text), <<>>)
    ELSE SplitOnSeparators(Tail(text), Append(cur, Head(text)))

TrimEach(parts) == [i \in DOMAIN parts |-> Trim(parts[i])]

\* the text as a list, empty for the empty text
IfAny(text) == IF text # <<>> THEN <<text>> ELSE <<>>

\* base.slice(0, 2), base.slice(0, 3), base.slice(0, 4) for a base that long
Prefixes(base) ==
  (IF Len(base) >= 2 THEN <<SubSeq(base, 1, 2)>> ELSE <<>>)
  \o (IF Len(base) >= 3 THEN <<SubSeq(base, 1, 3)>> ELSE <<>>)
  \o (IF Len(base) >= 4 THEN <<SubSeq(base, 1, 4)>> ELSE <<>>)

AliasesFrom(normalized, noSuffix) ==
  Dedupe(IfAny(normalized)
         \o IfAny(noSuffix)
         \o SelectSeq(TrimEach(SplitOnSeparators(noSuffix, <<>>)), LAMBDA p : Len(p) >= 2)
         \o Prefixes(IF noSuffix # <<>> THEN noSuffix ELSE normalized))

AliasesOfNormalized(normalized) == AliasesFrom(normalized, StripAccountSuffix(normalized))

\* The aliases in the insertion order of the Set the code builds.
accountAliases(name) == AliasesOfNormalized(normalizeLoose(name))

\* The characters buildFlexibleAccountRegex joins with \s* (none: no regex).
buildFlexibleAccountRegex(name) == SelectSeq(Trim(name), LAMBDA c : c \notin WhiteSpace)

\* AliasScore without the length of the alias: every alias the text includes
\* scores 1
AliasScoreFlat(normalizedText, alias) ==
  RatMax(IF Includes(normalizedText, alias) THEN <<1, 1>> ELSE <<0, 1>>,
         similarityByChars(normalizedText, alias))

\* the score one alias gives: its length + 1 when the text includes it, and the
\* similarity of their characters
AliasScore(normalizedText, alias) ==
  RatMax(IF Includes(normalizedText, alias) THEN <<Len(alias) + 1, 1>> ELSE <<0, 1>>,
         similarityByChars(normalizedText, alias))

BestAliasScore(normalizedText, aliases) ==
  RatMaxOver([k \in DOMAIN aliases |-> AliasScore(normalizedText, aliases[k])], 1)

\* the score findAccountMentionsInText gives one account
AccountScore(normalizedText, name) ==
  RatMax(BestAliasScore(normalizedText, accountAliases(name)),
         getAccountHintBoost(normalizedText, normalizeLoose(name)))

AccountScores(normalizedText, accounts) ==
  [i \in DOMAIN accounts |-> AccountScore(normalizedText, accounts[i])]

\* accounts[i] for the i of kept, ordered by Before; Before is a strict total order
RankedBy(accounts, kept, Before(_, _)) ==
  [p \in 1..Cardinality(kept) |->
     accounts[CHOOSE i \in kept : Cardinality({j \in kept : Before(j, i)}) = p - 1]]

\* the accounts scoring at least 0.55 by descending score; the sort is stable
RankByScore(accounts, score) ==
  RankedBy(accounts,
           {i \in DOMAIN accounts : RatGeq(score[i], SCORE_THRESHOLD)},
           LAMBDA i, j : RatLess(score[j], score[i]) \/ (~RatLess(score[i], score[j]) /\ i < j))

\* the accounts scoring at least 0.55, by descending score (the sort is stable),
\* without repeated names
findAccountMentionsInText(text, accounts) ==
  Dedupe(RankByScore(accounts, AccountScores(normalizeLoose(text), accounts)))

FirstOrUndefined(xs) == IF xs = <<>> THEN Undefined ELSE xs[1]

\* findAccountMentionsInText(text, accounts)[0]
findBestAccountMatch(text, accounts) ==
  FirstOrUndefined(findAccountMentionsInText(text, accounts))

\* the indexes at which the aliases of length >= 2 first occur in the text
AliasIndexes(normalizedText, aliases) ==
  {IndexOf(normalizedText, aliases[k]) : k \in {n \in DOMAIN aliases : Len(aliases[n]) >= 2}}
  \ {-1}

AccountIndexes(normalizedText, accounts) ==
  [i \in DOMAIN accounts |-> AliasIndexes(normalizedText, accountAliases(accounts[i]))]

\* the accounts with an index by their least index; the sort is stable
RankByIndex(accounts, indexes) ==
  RankedBy(accounts,
           {i \in DOMAIN accounts : indexes[i] # {}},
           LAMBDA i, j : Min(indexes[i]) < Min(indexes[j])
                           \/ (Min(indexes[i]) = Min(indexes[j]) /\ i < j))

\* The names of the accounts one of whose aliases of length >= 2 occurs in the
\* normalized text, by the first index of such an alias (the sort is stable).
\* text.match(flexible) is called with a g-flagged regex: its result is the plain
\* array of matches, which has no index, so that branch never lowers bestIndex.
findAccountHitsInText(text, accounts) ==
  RankByIndex(accounts, AccountIndexes(normalizeLoose(text), accounts))

\* the 1-based positions of the matches of TRANSFER_CONNECTORS
ConnectorPositions(text) ==
  {i \in DOMAIN text : \E k \in DOMAIN TRANSFER_CONNECTORS :
                         MatchesAt(text, TRANSFER_CONNECTORS[k], i - 1)}

IndexOfLast(positions) ==
  IF positions = {} THEN -1 ELSE (CHOOSE i \in positions : \A j \in positions : j <= i) - 1

\* the 0-based index of the last match of TRANSFER_CONNECTORS, -1 when none
LastConnectorIndex(text) == IndexOfLast(ConnectorPositions(text))

\* the result of extractTransferAccounts from the match of the sides of the last
\* connector and the hits
DirectionalAccounts(hasConnector, fromByLeft, toByRight, hits) ==
  IF hasConnector /\ (Truthy(fromByLeft) \/ Truthy(toByRight))
    THEN [from |-> fromByLeft, to |-> toByRight]
  ELSE IF Len(hits) >= 2 THEN [from |-> hits[1], to |-> hits[2]]
  ELSE [from |-> FirstOrUndefined(hits), to |-> Undefined]

\* every connector is one character long
AccountsAround(text, index, accounts) ==
  DirectionalAccounts(index >= 0,
                      findBestAccountMatch(SliceTo(text, index), accounts),
                      findBestAccountMatch(SliceFrom(text, index + 1), accounts),
                      findAccountHitsInText(text, accounts))

extractTransferAccounts(text, accounts) ==
  AccountsAround(text, LastConnectorIndex(text), accounts)

\* ------------------------------------------------------- regular expressions

\* A regular expression is modelled by its match length: MatchLen(text, i) is the
\* length of the match that starts at the 1-based position i of text, 0 when the
\* expression does not match there (none of the expressions matches the empty
\* string).

IsDigitAt(text, i) == i >= 1 /\ i <= Len(text) /\ text[i] \in Digits
IsDateSepAt(text, i) == i >= 1 /\ i <= Len(text) /\ text[i] \in {"/", "-"}
IsWordAt(text, i) == i >= 1 /\ i <= Len(text) /\ text[i] \in WordChars

\* \b between the positions i - 1 and i
WordBoundaryBefore(text, i) == IsWordAt(text, i - 1) # IsWordAt(text, i)

\* the length of the run of digits that starts at i
RECURSIVE DigitRun(_, _)
DigitRun(text, i) == IF IsDigitAt(text, i) THEN 1 + DigitRun(text, i + 1) ELSE 0

\* \d{1,2} followed by a separator: the number of digits taken, 0 when it fails
OneOrTwoDigitsThenSep(text, i) ==
  IF IsDigitAt(text, i) /\ IsDigitAt(text, i + 1) /\ IsDateSepAt(text, i + 2) THEN 2
  ELSE IF IsDigitAt(text, i) /\ IsDateSepAt(text, i + 1) THEN 1
  ELSE 0

\* a greedy \d{1,2} at the end of an expression
OneOrTwoDigits(text, i) ==
  IF IsDigitAt(text, i) /\ IsDigitAt(text, i + 1) THEN 2
  ELSE IF IsDigitAt(text, i) THEN 1
  ELSE 0

\* /\d{4}[\/\-]\d{1,2}[\/\-]\d{1,2}/
FullDateLen(text, i) ==
  LET m == OneOrTwoDigitsThenSep(text, i + 5)
      d == OneOrTwoDigits(text, i + 5 + m + 1)
  IN IF (\A k \in 0..3 : IsDigitAt(text, i + k)) /\ IsDateSepAt(text, i + 4) /\ m > 0 /\ d > 0
       THEN 4 + 1 + m + 1 + d
       ELSE 0

\* /\b\d{4}[\/\-]\d{1,2}[\/\-]\d{1,2}\b/: giving back a digit of the day never
\* makes the closing \b hold, so the greedy length decides
BoundedFullDateLen(text, i) ==
  LET n == FullDateLen(text, i)
  IN IF n > 0 /\ WordBoundaryBefore(text, i) /\ WordBoundaryBefore(text, i + n) THEN n ELSE 0

\* /\b\d{1,2}[\/\-]\d{1,2}\b/
BoundedShortDateLen(text, i) ==
  LET m == OneOrTwoDigitsThenSep(text, i)
      d == OneOrTwoDigits(text, i + m + 1)
      n == m + 1 + d
  IN IF m > 0 /\ d > 0 /\ WordBoundaryBefore(text, i) /\ WordBoundaryBefore(text, i + n)
       THEN n ELSE 0

\* /\d+(?:\.\d+)?/
NumeralLen(text, i) ==
  LET whole == DigitRun(text, i)
      frac == IF i + whole <= Len(text) /\ text[i + whole] = "." THEN DigitRun(text, i + whole + 1) ELSE 0
  IN IF whole = 0 THEN 0 ELSE IF frac > 0 THEN whole + 1 + frac ELSE whole

\* an alternation of literals under the i flag: the first alternative that
\* matches at i
AlternativesLenI(text, i, alts) ==
  LET lower == toLowerCase(text)
      ok == {k \in DOMAIN alts : MatchesAt(lower, alts[k], i - 1)}
  IN IF ok = {} THEN 0 ELSE Len(alts[Min(ok)])

\* one literal under the i flag
LiteralLenI(text, i, literal) ==
  IF literal # <<>> /\ MatchesAt(toLowerCase(text), toLowerCase(literal), i - 1) THEN Len(literal) ELSE 0

\* chars joined by \s* under the i flag: chars[k] is looked for at position i
RECURSIVE FlexibleLenFrom(_, _, _, _)
FlexibleLenFrom(text, i, chars, k) ==
  IF k > Len(chars) THEN 0
  ELSE IF i > Len(text) \/ toLowerCaseChar(text[i]) # toLowerCaseChar(chars[k]) THEN -1
  ELSE IF k = Len(chars) THEN 1
  ELSE LET RECURSIVE Spaces(_)
           Spaces(j) == IF j <= Len(text) /\ text[j] \in WhiteSpace THEN 1 + Spaces(j + 1) ELSE 0
           gap == Spaces(i + 1)
           rest == FlexibleLenFrom(text, i + 1 + gap, chars, k + 1)
       IN IF rest < 0 THEN -1 ELSE 1 + gap + rest

FlexibleLen(text, i, chars) ==
  IF chars = <<>> THEN 0 ELSE Max2(0, FlexibleLenFrom(text, i, chars, 1))

\* /\s+/
SpaceRunLen(text, i) ==
  LET RECURSIVE Spaces(_)
      Spaces(j) == IF j <= Len(text) /\ text[j] \in WhiteSpace THEN 1 + Spaces(j + 1) ELSE 0
  IN Spaces(i)

\* text.replace(regex, ' ') for a g-flagged regex: the matches are found left to
\* right in the original text and do not overlap
ReplaceAll(text, MatchLen(_, _)) ==
  LET RECURSIVE From(_)
      From(i) ==
        IF i > Len(text) THEN <<>>
        ELSE LET n == MatchLen(text, i)
             IN IF n > 0 THEN <<" ">> \o From(i + n) ELSE <<text[i]>> \o From(i + 1)
  IN From(1)

\* the 1-based position of the first match, 0 when there is none
FirstMatch(text, MatchLen(_, _)) ==
  LET at == {i \in DOMAIN text : MatchLen(text, i) > 0}
  IN IF at = {} THEN 0 ELSE Min(at)

\* ------------------------------------------------------ description cleanup

RECURSIVE StripAliases(_, _, _)
StripAliases(result, aliases, k) ==
  IF k > Len(aliases) THEN result
  ELSE StripAliases(ReplaceAll(result, LAMBDA t, i : LiteralLenI(t, i, aliases[k])), aliases, k + 1)

RECURSIVE StripAccounts(_, _, _)
StripAccounts(result, accounts, k) ==
  IF k > Len(accounts) THEN result
  ELSE IF accounts[k] = <<>> THEN StripAccounts(result, accounts, k + 1)
  ELSE LET flexible == buildFlexibleAccountRegex(accounts[k])
           noName == IF flexible = <<>> THEN result
                     ELSE ReplaceAll(result, LAMBDA t, i : FlexibleLen(t, i, flexible))
           aliases == SelectSeq(accountAliases(accounts[k]), LAMBDA a : Len(a) >= 2)
       IN StripAccounts(StripAliases(noName, aliases, 1), accounts, k + 1)

\* result.replace(/\s+/g, ' ').trim()
CollapseSpaces(text) == Trim(ReplaceAll(text, SpaceRunLen))

cleanDescription(text, accounts) ==
  LET noDates == ReplaceAll(text, FullDateLen)
      noNumbers == ReplaceAll(noDates, NumeralLen)
      noDayWords == ReplaceAll(noNumbers, LAMBDA t, i : AlternativesLenI(t, i, RELATIVE_DAY_WORDS))
      noAccounts == StripAccounts(noDayWords, accounts, 1)
      noKeywords == ReplaceAll(noAccounts, LAMBDA t, i : AlternativesLenI(t, i, ACCOUNT_KEYWORD_WORDS))
  IN CollapseSpaces(noKeywords)

\* ------------------------------------------------------ category inference

\* categories.find((c) => pattern.test(c)) for an i-flagged alternation
pickByPattern(categories, pattern) ==
  FindFirst(categories, LAMBDA c : TestAlternativesI(c, pattern))

inferCategoryFromText(snapshot, text, categories, type) ==
  LET direct == FindFirst(categories, LAMBDA c : Includes(text, c))
      transportHit ==
        \/ hasAnyKeyword(text, TRANSPORT_KEYWORDS(snapshot))
        \/ snapshot = "part_000" /\ TestAlternativesI(text, TRANSPORT_TEXT_PATTERN)
  IN IF Truthy(direct) THEN direct
     ELSE IF type = "income" THEN
       IF hasAnyKeyword(text, SALARY_KEYWORDS) THEN pickByPattern(categories, SALARY_PATTERN)
       ELSE IF hasAnyKeyword(text, BONUS_KEYWORDS) THEN pickByPattern(categories, BONUS_PATTERN)
       ELSE IF hasAnyKeyword(text, INVEST_KEYWORDS) THEN pickByPattern(categories, INVEST_PATTERN)
       ELSE IF categories = <<>> THEN Undefined ELSE categories[1]
     ELSE IF hasAnyKeyword(text, FOOD_KEYWORDS) THEN pickByPattern(categories, FOOD_PATTERN)
     ELSE IF transportHit THEN pickByPattern(categories, TRANSPORT_PATTERN)
     ELSE IF hasAnyKeyword(text, DAILY_KEYWORDS) THEN pickByPattern(categories, DAILY_PATTERN)
     ELSE IF hasAnyKeyword(text, HOUSE_KEYWORDS) THEN pickByPattern(categories, HOUSE_PATTERN)
     ELSE IF hasAnyKeyword(text, PLAY_KEYWORDS) THEN pickByPattern(categories, PLAY_PATTERN)
     ELSE IF hasAnyKeyword(text, HEALTH_KEYWORDS) THEN pickByPattern(categories, HEALTH_PATTERN)
     ELSE Undefined

\* ------------------------------------------------------------------ amounts

DigitChars == <<"0", "1", "2", "3", "4", "5", "6", "7", "8", "9">>
DigitValue(c) == (CHOOSE k \in 1..10 : DigitChars[k] = c) - 1

RECURSIVE ParseDigits(_)
ParseDigits(digits) ==
  IF digits = <<>> THEN 0
  ELSE 10 * ParseDigits(SubSeq(digits, 1, Len(digits) - 1)) + DigitValue(digits[Len(digits)])

RECURSIVE DropTrailingZeros(_)
DropTrailingZeros(digits) ==
  IF digits # <<>> /\ digits[Len(digits)] = "0"
    THEN DropTrailingZeros(SubSeq(digits, 1, Len(digits) - 1))
    ELSE digits

\* A number is its whole part and the digits of its fraction, without trailing
\* zeros: Number("007.50") and Number("7.5") are the same value.
NoAmount == [whole |-> -1, frac |-> <<>>]

\* Number(numeral) for a numeral matched by /\d+(?:\.\d+)?/
NumberOf(numeral) ==
  LET whole == DigitRun(numeral, 1)
  IN [whole |-> ParseDigits(SubSeq(numeral, 1, whole)),
      frac |-> DropTrailingZeros(SubSeq(numeral, whole + 2, Len(numeral)))]

\* the text parseTransactionLocal scans for the amount: dates masked
amountScanText(text) == ReplaceAll(ReplaceAll(text, BoundedFullDateLen), BoundedShortDateLen)

\* amountScanText.match(/(\d+(?:\.\d+)?)/): the numeral, <<>> when none
amountMatch(text) ==
  LET scan == amountScanText(text)
      at == FirstMatch(scan, NumeralLen)
  IN IF at = 0 THEN <<>> ELSE SubSeq(scan, at, at + NumeralLen(scan, at) - 1)

extractAmount(text) ==
  IF amountMatch(text) = <<>> THEN NoAmount ELSE NumberOf(amountMatch(text))

\* -------------------------------------------------------------------- dates

\* A date text is "YYYY-MM-DD" as a sequence of characters.

RECURSIVE NatToText(_)
NatToText(n) ==
  IF n < 10 THEN <<DigitChars[n + 1]>> ELSE Append(NatToText(n \div 10), DigitChars[(n % 10) + 1])

\* s.padStart(2, '0')
padStart2(s) == IF Len(s) < 2 THEN <<"0">> \o s ELSE s

IsLeapYear(y) == (y % 4 = 0 /\ y % 100 # 0) \/ y % 400 = 0

DaysInMonth(y, m) ==
  IF m = 2 THEN (IF IsLeapYear(y) THEN 29 ELSE 28)
  ELSE IF m \in {4, 6, 9, 11} THEN 30 ELSE 31

\* the calendar day before [y, m, d]
PreviousDay(date) ==
  IF date.d > 1 THEN [date EXCEPT !.d = date.d - 1]
  ELSE IF date.m > 1 THEN [y |-> date.y, m |-> date.m - 1, d |-> DaysInMonth(date.y, date.m - 1)]
  ELSE [y |-> date.y - 1, m |-> 12, d |-> 31]

RECURSIVE DaysBefore(_, _)
DaysBefore(date, k) == IF k = 0 THEN date ELSE DaysBefore(PreviousDay(date), k - 1)

getLocalDateString(date) ==
  NatToText(date.y) \o <<"-">> \o padStart2(NatToText(date.m)) \o <<"-">> \o padStart2(NatToText(date.d))

\* new Date(today) for a date-only text is midnight UTC of that day; getDate,
\* setDate and getLocalDateString read and write it in local time, where it is the
\* day before when the local zone is behind UTC.
LocalDateOf(today, behindUTC) ==
  LET utc == [y |-> ParseDigits(SubSeq(today, 1, 4)),
              m |-> ParseDigits(SubSeq(today, 6, 7)),
              d |-> ParseDigits(SubSeq(today, 9, 10))]
  IN IF behindUTC THEN PreviousDay(utc) ELSE utc

\* the position of the first match of
\* /(?:^|[^\d])(\d{1,2})[\/\-](\d{1,2})(?:$|[^\d])/ as the position of its month
ShortDateMonthLen(text, i) ==
  LET m == OneOrTwoDigitsThenSep(text, i)
  IN IF ~IsDigitAt(text, i - 1) /\ m > 0 /\ DigitRun(text, i + m + 1) \in {1, 2} THEN m ELSE 0

\* resolveDate with the full date asked before the relative keywords
resolveDateFullFirst(text, today, behindUTC) ==
  LET full == FirstMatch(text, FullDateLen)
      fullMonth == OneOrTwoDigitsThenSep(text, full + 5)
      fullDay == OneOrTwoDigits(text, full + 5 + fullMonth + 1)
  IN IF full > 0
       THEN SubSeq(text, full, full + 3) \o <<"-">>
            \o padStart2(SubSeq(text, full + 5, full + 4 + fullMonth)) \o <<"-">>
            \o padStart2(SubSeq(text, full + 5 + fullMonth + 1, full + 5 + fullMonth + fullDay))
     ELSE IF Includes(text, YESTERDAY)
       THEN getLocalDateString(DaysBefore(LocalDateOf(today, behindUTC), 1))
     ELSE IF Includes(text, DAY_BEFORE_YESTERDAY)
       THEN getLocalDateString(DaysBefore(LocalDateOf(today, behindUTC), 2))
     ELSE today

resolveDate(text, today, behindUTC) ==
  LET full == FirstMatch(text, FullDateLen)
      fullMonth == OneOrTwoDigitsThenSep(text, full + 5)
      fullDay == OneOrTwoDigits(text, full + 5 + fullMonth + 1)
      short == FirstMatch(text, ShortDateMonthLen)
      shortMonth == ShortDateMonthLen(text, short)
      shortDay == DigitRun(text, short + shortMonth + 1)
  IN IF Includes(text, YESTERDAY)
       THEN getLocalDateString(DaysBefore(LocalDateOf(today, behindUTC), 1))
     ELSE IF Includes(text, DAY_BEFORE_YESTERDAY)
       THEN getLocalDateString(DaysBefore(LocalDateOf(today, behindUTC), 2))
     ELSE IF full > 0
       THEN SubSeq(text, full, full + 3) \o <<"-">>
            \o padStart2(SubSeq(text, full + 5, full + 4 + fullMonth)) \o <<"-">>
            \o padStart2(SubSeq(text, full + 5 + fullMonth + 1, full + 5 + fullMonth + fullDay))
     ELSE IF short > 0
       THEN SubSeq(today, 1, 4) \o <<"-">>
            \o padStart2(SubSeq(text, short, short + shortMonth - 1)) \o <<"-">>
            \o padStart2(SubSeq(text, short + shortMonth + 1, short + shortMonth + shortDay))
     ELSE today

\* ------------------------------------------------------- the local parser

\* A category is [name, type]; the type "none" is an absent type.
availableCategories(categories, type) ==
  LET usable == SelectSeq(categories, LAMBDA c : c.type = "none" \/ c.type = type)
  IN [i \in DOMAIN usable |-> usable[i].name]

hasIncomeKeyword(snapshot, text) ==
  \/ hasAnyKeyword(text, INCOME_KEYWORDS(snapshot))
  \/ Includes(toLowerCase(text), INCOME_WORD)

\* incomeByKeyword of part_000
incomeByKeyword(text) ==
  \/ hasIncomeKeyword("part_000", text)
  \/ hasAnyKeyword(text, SALARY_KEYWORDS)
  \/ hasAnyKeyword(text, BONUS_KEYWORDS)
  \/ hasAnyKeyword(text, INVEST_KEYWORDS)
  \/ TestAlternatives(text, INCOME_VERBS)

transferByVerb(text) ==
  hasAnyKeyword(text, TRANSFER_KEYWORDS) \/ TestAlternatives(text, TRANSFER_VERBS)

\* TypeOf with the income signal asked first
TypeOfIncomeFirst(hasTwoAccounts, byVerb, mentions, byIncome) ==
  IF byIncome THEN "income"
  ELSE IF hasTwoAccounts THEN "transfer"
  ELSE IF byVerb /\ mentions >= 2 THEN "transfer"
  ELSE "expense"

\* the type of part_000, from what the text holds
TypeOf(hasTwoAccounts, byVerb, mentions, byIncome) ==
  IF hasTwoAccounts THEN "transfer"
  ELSE IF byVerb /\ mentions >= 2 /\ ~byIncome THEN "transfer"
  ELSE IF byIncome THEN "income"
  ELSE "expense"

hasTwoAccounts(directionalAccounts) ==
  /\ Truthy(directionalAccounts.from)
  /\ Truthy(directionalAccounts.to)
  /\ directionalAccounts.from # directionalAccounts.to

\* the target of a transfer of part_000:
\* directionalAccounts.to || fallbackTarget || cashTarget
TargetOf(text, accounts, mentionedAccounts, directionalTo, sourceAccountName) ==
  OrElse(directionalTo,
         OrElse(FindFirst(mentionedAccounts, LAMBDA a : a # sourceAccountName),
                IF Includes(text, CASH_WORD)
                  THEN findBestAccountMatch(CASH_WORD, accounts) ELSE Undefined))

ClassOf(text, accounts, mentionedAccounts, directionalTo, type, sourceAccountName) ==
  [type |-> type,
   accountName |-> sourceAccountName,
   toAccountName |-> IF type = "transfer"
                       THEN TargetOf(text, accounts, mentionedAccounts, directionalTo,
                                     sourceAccountName)
                       ELSE Undefined]

\* the type, the source and the target of parseTransactionLocal in part_000
ClassifyWith(text, accounts, mentionedAccounts, directionalAccounts) ==
  ClassOf(text, accounts, mentionedAccounts, directionalAccounts.to,
          TypeOf(hasTwoAccounts(directionalAccounts), transferByVerb(text),
                 Len(mentionedAccounts), incomeByKeyword(text)),
          OrElse(directionalAccounts.from,
                 OrElse(FirstOrUndefined(mentionedAccounts),
                        findBestAccountMatch(text, accounts))))

\* the type of geminiService.ts
KeywordTypeOf(text) ==
  IF hasAnyKeyword(text, TRANSFER_KEYWORDS) THEN "transfer"
  ELSE IF hasIncomeKeyword("geminiService", text) THEN "income"
  ELSE "expense"

KeywordClassOf(mentionedAccounts, type, sourceAccountName) ==
  [type |-> type,
   accountName |-> sourceAccountName,
   toAccountName |-> IF type = "transfer"
                       THEN FindFirst(mentionedAccounts, LAMBDA a : a # sourceAccountName)
                       ELSE Undefined]

\* the type, the source and the target of parseTransactionLocal in geminiService.ts
ClassifyByKeyword(text, accounts, mentionedAccounts) ==
  KeywordClassOf(mentionedAccounts, KeywordTypeOf(text),
                 OrElse(FirstOrUndefined(mentionedAccounts),
                        findBestAccountMatch(text, accounts)))

\* the type, the source and the target of parseTransactionLocal
classifyLocal(snapshot, text, accounts) ==
  IF snapshot = "part_000"
    THEN ClassifyWith(text, accounts, findAccountMentionsInText(text, accounts),
                      extractTransferAccounts(text, accounts))
    ELSE ClassifyByKeyword(text, accounts, findAccountMentionsInText(text, accounts))

\* cleanDescription(text, accounts) || text
DescriptionOr(cleaned, text) == IF cleaned # <<>> THEN cleaned ELSE text

LocalResult(snapshot, text, accounts, categories, today, behindUTC, class) ==
  [amount |-> extractAmount(text),
   type |-> class.type,
   accountName |-> class.accountName,
   toAccountName |-> class.toAccountName,
   categoryName |-> IF class.type = "transfer" THEN TRANSFER_CATEGORY
                    ELSE inferCategoryFromText(snapshot, text,
                                               availableCategories(categories, class.type),
                                               class.type),
   description |-> DescriptionOr(cleanDescription(text, accounts), text),
   date |-> resolveDate(text, today, behindUTC)]

ParseTrimmed(snapshot, text, accounts, categories, today, behindUTC) ==
  LocalResult(snapshot, text, accounts, categories, today, behindUTC,
              classifyLocal(snapshot, text, accounts))

parseTransactionLocal(snapshot, input, accounts, categories, today, behindUTC) ==
  ParseTrimmed(snapshot, Trim(input), accounts, categories, today, behindUTC)

\* ------------------------------------------------ the gates of the remote call

IsPositiveAmount(amount) == amount.whole > 0 \/ (amount.whole = 0 /\ amount.frac # <<>>)

SHORT_INPUT_LENGTH == 28

isLocalParseConfident(parsed, input) ==
  LET hasAmount == IsPositiveAmount(parsed.amount)
      hasSource == Truthy(parsed.accountName)
      hasTarget ==
        \/ parsed.type # "transfer"
        \/ (Truthy(parsed.toAccountName) /\ parsed.toAccountName # parsed.accountName)
      hasCategory == parsed.type = "transfer" \/ Truthy(parsed.categoryName)
      hasDescription == Truthy(parsed.description) /\ Len(Trim(parsed.description)) > 0
      shortInputFastPath ==
        Len(Trim(input)) <= SHORT_INPUT_LENGTH /\ hasAmount /\ hasSource /\ hasCategory
  IN (hasAmount /\ hasSource /\ hasTarget /\ hasCategory /\ hasDescription) \/ shortInputFastPath

\* shouldBypassAiForTransfer without its effect: no transfer bypasses the call
neverBypassAiForTransfer(fallback) == FALSE

shouldBypassAiForTransfer(fallback) ==
  /\ fallback.type = "transfer"
  /\ Truthy(fallback.accountName)
  /\ Truthy(fallback.toAccountName)
  /\ fallback.accountName # fallback.toAccountName

\* The gate between the fallback and the remote call: part_000 asks
\* shouldBypassAiForTransfer and never calls its isLocalParseConfident;
\* geminiService.ts asks isLocalParseConfident.
SkipsRemoteCall(snapshot, fallback, input) ==
  IF snapshot = "part_000" THEN shouldBypassAiForTransfer(fallback)
  ELSE isLocalParseConfident(fallback, input)

\* ------------------------------------------------------ the remote response

\* The fields of a ParsedInput.
ParsedInputFields ==
  {"amount", "description", "type", "accountName", "toAccountName", "categoryName", "date"}

\* A response text is a sequence of tokens: the mark ```json, the mark ```,
\* white space, the text of a JSON object with the fields `has` and the values
\* `val`, or text that is not JSON.
NoFields ==
  [amount |-> NoAmount, description |-> Undefined, type |-> "expense",
   accountName |-> Undefined, toAccountName |-> Undefined,
   categoryName |-> Undefined, date |-> Undefined]

Token(kind) == [kind |-> kind, has |-> {}, val |-> NoFields]
ObjectToken(has, val) == [kind |-> "object", has |-> has, val |-> val]

RECURSIVE TrimTokens(_)
TrimTokens(tokens) ==
  IF tokens # <<>> /\ tokens[1].kind = "space" THEN TrimTokens(Tail(tokens))
  ELSE IF tokens # <<>> /\ tokens[Len(tokens)].kind = "space"
    THEN TrimTokens(SubSeq(tokens, 1, Len(tokens) - 1))
  ELSE tokens

\* (response.text || '{}').replace(/```json/g, '').replace(/```/g, '').trim()
cleanJson(text) ==
  LET given == IF text = <<>> THEN <<ObjectToken({}, NoFields)>> ELSE text
  IN TrimTokens(SelectSeq(given, LAMBDA t : t.kind \notin {"fenceJson", "fence"}))

\* JSON.parse(cleanJson): the object, or an exception when the text is not the
\* text of one JSON value.
ParseResponse(text) ==
  LET clean == cleanJson(text)
  IN IF Len(clean) = 1 /\ clean[1].kind = "object"
       THEN [throws |-> FALSE, has |-> clean[1].has, val |-> clean[1].val]
       ELSE [throws |-> TRUE, has |-> {}, val |-> NoFields]

\* { ...fallback, ...parsed }
SpreadOver(fallback, parsed) ==
  [f \in ParsedInputFields |-> IF f \in parsed.has THEN parsed.val[f] ELSE fallback[f]]

hasStrongIncomeHint(input) ==
  \/ hasAnyKeyword(input, SALARY_KEYWORDS)
  \/ hasAnyKeyword(input, BONUS_KEYWORDS)
  \/ hasAnyKeyword(input, INVEST_KEYWORDS)
  \/ TestAlternatives(input, INCOME_VERBS)

hasStrongExpenseHint(input) ==
  \/ hasAnyKeyword(input, FOOD_KEYWORDS)
  \/ hasAnyKeyword(input, TRANSPORT_KEYWORDS("part_000"))
  \/ hasAnyKeyword(input, DAILY_KEYWORDS)
  \/ hasAnyKeyword(input, HOUSE_KEYWORDS)
  \/ hasAnyKeyword(input, PLAY_KEYWORDS)
  \/ hasAnyKeyword(input, HEALTH_KEYWORDS)

\* forcedCategoryName without the guard: the category is left to the response
noForcedCategoryName(snapshot, input, merged, fallback) == Undefined

\* forcedCategoryName of part_000; geminiService.ts has none
forcedCategoryName(snapshot, input, merged, fallback) ==
  IF /\ snapshot = "part_000"
     /\ Truthy(fallback.categoryName)
     /\ \/ merged.type = "income" /\ hasStrongIncomeHint(input)
        \/ merged.type = "expense" /\ hasStrongExpenseHint(input)
    THEN fallback.categoryName
    ELSE Undefined

\* merged.x ? findBestAccountMatch(merged.x, accounts) : undefined
ResolvedOrUndefined(name, accounts) ==
  IF Truthy(name) THEN findBestAccountMatch(name, accounts) ELSE Undefined

\* forcedTarget without the mentions: the target is left to the response
noForcedTarget(type, explicitMentions, forcedSource) == Undefined

\* explicitMentions.find((a) => a !== forcedSource) for a transfer
forcedTarget(type, explicitMentions, forcedSource) ==
  IF type = "transfer"
    THEN FindFirst(explicitMentions, LAMBDA a : a # forcedSource) ELSE Undefined

\* the object parseTransactionAI returns after the merge
MergedResult(snapshot, input, accounts, fallback, merged, explicitMentions) ==
  [merged EXCEPT
     !.accountName =
       Coalesce(FirstOrUndefined(explicitMentions),
                Coalesce(ResolvedOrUndefined(merged.accountName, accounts),
                         fallback.accountName)),
     !.toAccountName =
       Coalesce(forcedTarget(merged.type, explicitMentions, FirstOrUndefined(explicitMentions)),
                Coalesce(ResolvedOrUndefined(merged.toAccountName, accounts),
                         fallback.toAccountName)),
     !.categoryName =
       IF snapshot = "part_000"
         THEN OrElse(forcedCategoryName(snapshot, input, merged, fallback),
                     OrElse(merged.categoryName, fallback.categoryName))
         ELSE merged.categoryName,
     !.description =
       OrElse(cleanDescription(OrElse(merged.description, input), accounts),
              fallback.description)]

\* What parseTransactionAI returns from a parsed response: the merge.
mergeRemote(snapshot, input, accounts, fallback, parsed) ==
  MergedResult(snapshot, input, accounts, fallback, SpreadOver(fallback, parsed),
               findAccountMentionsInText(input, accounts))

\* ---------------------------------------------------------------- the inputs

\* The words an input text is made of.
\* U8F49 U5230 (transfer to), U73FE U91D1 (cash), U9280 U884C (bank), "50",
\* U5348 U9910 (lunch), a space, U85AA U6C34 (salary)
Words ==
  << <<"U8F49", "U5230">>, <<"U73FE", "U91D1">>, <<"U9280", "U884C">>, <<"5", "0">>,
     <<"U5348", "U9910">>, <<" ">>, <<"U85AA", "U6C34">> >>

\* an input text is at most MaxWords words
MaxWords == 3

RECURSIVE Concat(_)
Concat(words) == IF words = <<>> THEN <<>> ELSE Head(words) \o Concat(Tail(words))

RECURSIVE WordLists(_)
WordLists(n) ==
  IF n = 0 THEN {<<>>}
  ELSE {Append(ws, Words[k]) : ws \in WordLists(n - 1), k \in DOMAIN Words}

InputTexts == {Concat(ws) : ws \in UNION {WordLists(n) : n \in 1..MaxWords}}

\* U73FE U91D1 (cash), U9280 U884C U5E33 U6236 (bank account)
AccountLists ==
  { << <<"U73FE", "U91D1">>, <<"U9280", "U884C", "U5E33", "U6236">> >>,
    << <<"U9280", "U884C", "U5E33", "U6236">> >> }

\* U9910 U98F2 (food and drink, expense), U85AA U8CC7 (salary, income),
\* U5176 U4ED6 (other, no type)
Categories ==
  << [name |-> <<"U9910", "U98F2">>, type |-> "expense"],
     [name |-> <<"U85AA", "U8CC7">>, type |-> "income"],
     [name |-> <<"U5176", "U4ED6">>, type |-> "none"] >>

\* getLocalDateString(new Date()) at the time of the call
Today == <<"2", "0", "2", "4", "-", "0", "3", "-", "0", "1">>

\* the local time zone is not behind UTC
BehindUTC == FALSE

\* The texts the remote call can answer with.
Responses ==
  { <<>>,
    <<Token("garbage")>>,
    <<Token("fenceJson"), Token("space"),
      ObjectToken({"type", "toAccountName"},
                  [NoFields EXCEPT !.type = "transfer", !.toAccountName = <<"U73FE", "U91D1">>]),
      Token("space"), Token("fence")>>,
    <<ObjectToken({"type", "amount", "categoryName", "description", "accountName"},
                  [NoFields EXCEPT !.type = "expense",
                                   !.amount = [whole |-> 50, frac |-> <<>>],
                                   !.categoryName = <<"U5176", "U4ED6">>,
                                   !.description = <<"U5348", "U9910">>,
                                   !.accountName = <<"U9280", "U884C">>])>>,
    <<ObjectToken({"categoryName"}, [NoFields EXCEPT !.categoryName = <<"U5176", "U4ED6">>])>> }

Snapshots == {"part_000", "geminiService"}

\* -------------------------------------------- parseTransactionAI, one call

VARIABLES
  pc,           \* "idle", "awaiting" (at the await of Promise.race) or "returned"
  call,         \* the arguments and the environment of the call
  fallback,     \* <<>> or <<the fallback>>, once computed
  aiCall,       \* the promise of generateContent: "none", "pending", "fulfilled", "rejected"
  timer,        \* the 2200 ms timer: "none", "pending", "fired", "cleared"
  response,     \* <<>> or <<the text aiCall was fulfilled with>>
  remoteCalls,  \* the number of generateContent calls made
  result        \* the promise parseTransactionAI returned: its state and value

parserVars == <<pc, call, fallback, aiCall, timer, response, remoteCalls, result>>

NoCall ==
  [snapshot |-> "part_000", input |-> <<>>, accounts |-> <<>>,
   localOnly |-> FALSE, apiKey |-> FALSE, clientFails |-> FALSE]

Pending == [state |-> "pending", value |-> <<>>]
\* a promise fulfilled with null is fulfilled with the value <<>>
Fulfilled(value) == [state |-> "fulfilled", value |-> value]

ParserInit ==
  /\ pc = "idle"
  /\ call = NoCall
  /\ fallback = <<>>
  /\ aiCall = "none"
  /\ timer = "none"
  /\ response = <<>>
  /\ remoteCalls = 0
  /\ result = Pending

\* Proceed without the test of options?.localOnly
ProceedDespiteLocalOnly(snapshot, input, accounts, local, skips) ==
  /\ fallback' = <<local>>
  /\ \E localOnly \in BOOLEAN, apiKey \in BOOLEAN, clientFails \in BOOLEAN :
       /\ call' = [snapshot |-> snapshot, input |-> input, accounts |-> accounts,
                   localOnly |-> localOnly, apiKey |-> apiKey, clientFails |-> clientFails]
       /\ IF ~apiKey \/ skips \/ clientFails
            THEN /\ pc' = "returned"
                 /\ result' = Fulfilled(<<local>>)
                 /\ UNCHANGED <<aiCall, timer, remoteCalls>>
            ELSE /\ pc' = "awaiting"
                 /\ aiCall' = "pending"
                 /\ remoteCalls' = remoteCalls + 1
                 /\ timer' = "pending"
                 /\ result' = result

\* The rest of parseTransactionAI once the fallback is computed, up to its first
\* await or its return.  The call runs with some options and in some
\* environment: localOnly is options?.localOnly; apiKey, process.env.API_KEY is
\* set; clientFails, the constructor of the client throws, so that getAiClient
\* returns null.
Proceed(snapshot, input, accounts, local, skips) ==
  /\ fallback' = <<local>>
  /\ \E localOnly \in BOOLEAN, apiKey \in BOOLEAN, clientFails \in BOOLEAN :
       /\ call' = [snapshot |-> snapshot, input |-> input, accounts |-> accounts,
                   localOnly |-> localOnly, apiKey |-> apiKey, clientFails |-> clientFails]
       /\ IF localOnly \/ ~apiKey \/ skips \/ clientFails
            THEN /\ pc' = "returned"
                 /\ result' = Fulfilled(<<local>>)
                 /\ UNCHANGED <<aiCall, timer, remoteCalls>>
            ELSE /\ pc' = "awaiting"
                 /\ aiCall' = "pending"
                 /\ remoteCalls' = remoteCalls + 1
                 /\ timer' = "pending"
                 /\ result' = result

\* with the fallback: the gate is asked of it
ProceedWith(snapshot, input, accounts, local) ==
  Proceed(snapshot, input, accounts, local, SkipsRemoteCall(snapshot, local, input))

\* parseTransactionAI(input, accounts, Categories, options) of one snapshot, up to
\* its first await or its return: null for a blank input
Invoke(snapshot, input, accounts) ==
  /\ pc = "idle"
  /\ response' = response
  /\ IF Trim(input) = <<>>
       THEN /\ \E localOnly \in BOOLEAN, apiKey \in BOOLEAN, clientFails \in BOOLEAN :
                 call' = [snapshot |-> snapshot, input |-> input, accounts |-> accounts,
                          localOnly |-> localOnly, apiKey |-> apiKey,
                          clientFails |-> clientFails]
            /\ pc' = "returned"
            /\ result' = Fulfilled(<<>>)
            /\ UNCHANGED <<fallback, aiCall, timer, remoteCalls>>
       ELSE ProceedWith(snapshot, input, accounts,
                        parseTransactionLocal(snapshot, input, accounts, Categories,
                                              Today, BehindUTC))

\* a catch block that throws the error again
Rethrow == result' = [state |-> "rejected", value |-> <<>>]

\* the catch block: console.error, return fallback
Catch == result' = Fulfilled(fallback)

\* What follows the await when aiCall won the race: the timer is cleared, the
\* text is parsed and merged; an exception goes to the catch block.
Continue(text) ==
  LET parsed == ParseResponse(text)
  IN /\ timer' = "cleared"
     /\ IF parsed.throws
          THEN Catch
          ELSE result' = Fulfilled(<<mergeRemote(call.snapshot, call.input, call.accounts,
                                                 fallback[1], parsed)>>)

\* AiFulfil with a continuation that runs whenever the response arrives, after
\* the return too
AiFulfilAfterReturn(text) ==
  /\ aiCall = "pending"
  /\ aiCall' = "fulfilled"
  /\ response' = <<text>>
  /\ pc' = "returned"
  /\ LET parsed == ParseResponse(text)
     IN result' = IF parsed.throws THEN Fulfilled(fallback)
                  ELSE Fulfilled(<<mergeRemote(call.snapshot, call.input, call.accounts,
                                               fallback[1], parsed)>>)
  /\ timer' = IF timer = "pending" THEN "cleared" ELSE timer
  /\ UNCHANGED <<call, fallback, remoteCalls>>

\* generateContent is fulfilled with a response.  After the function has
\* returned, nothing reads it.
AiFulfil(text) ==
  /\ aiCall = "pending"
  /\ aiCall' = "fulfilled"
  /\ response' = <<text>>
  /\ IF pc = "awaiting"
       THEN pc' = "returned" /\ Continue(text)
       ELSE UNCHANGED <<pc, timer, result>>
  /\ UNCHANGED <<call, fallback, remoteCalls>>

\* generateContent is rejected: the await throws into the catch block, which
\* leaves the timer running.
AiReject ==
  /\ aiCall = "pending"
  /\ aiCall' = "rejected"
  /\ IF pc = "awaiting"
       THEN pc' = "returned" /\ Catch
       ELSE UNCHANGED <<pc, result>>
  /\ UNCHANGED <<call, fallback, timer, response, remoteCalls>>

\* TimerFire with a second attempt: a timeout at the await makes the call again
TimerFireRetry ==
  /\ timer = "pending"
  /\ IF pc = "awaiting"
       THEN /\ timer' = "pending"
            /\ remoteCalls' = remoteCalls + 1
            /\ UNCHANGED <<pc, result>>
       ELSE /\ timer' = "fired"
            /\ UNCHANGED <<pc, result, remoteCalls>>
  /\ UNCHANGED <<call, fallback, aiCall, response>>

\* The timer fires and rejects timeoutPromise: when the race is undecided the
\* await throws into the catch block.
TimerFire ==
  /\ timer = "pending"
  /\ timer' = "fired"
  /\ IF pc = "awaiting"
       THEN pc' = "returned" /\ Catch
       ELSE UNCHANGED <<pc, result>>
  /\ UNCHANGED <<call, fallback, aiCall, response, remoteCalls>>

\* ------------------------------------------------ the learned preferences

\* A LearnedPrefsMap is the sequence of its entries [key, pref] in insertion
\* order, the order Object.entries walks them in.  A key is a text.  Times are
\* counted in days.

\* text.toLowerCase().trim().replace(/\s+/g, '').replace(/[punctuation]/g, '')
normalizeDesc(text) ==
  LET trimmed == Trim(toLowerCase(text))
      unspaced == SelectSeq(trimmed, LAMBDA c : c \notin WhiteSpace)
  IN SelectSeq(unspaced, LAMBDA c : c \notin PunctChars)

TypeText(type) ==
  CASE type = "expense" -> <<"e", "x", "p", "e", "n", "s", "e">>
    [] type = "income" -> <<"i", "n", "c", "o", "m", "e">>
    [] type = "transfer" -> <<"t", "r", "a", "n", "s", "f", "e", "r">>

\* `${type}::${normalizeDesc(description)}`
makePrefKey(type, description) == TypeText(type) \o <<":", ":">> \o normalizeDesc(description)

HasKey(prefs, key) == \E i \in DOMAIN prefs : prefs[i].key = key
\* prefs[key], for a key of prefs
At(prefs, key) == prefs[CHOOSE i \in DOMAIN prefs : prefs[i].key = key].pref
Keys(prefs) == {prefs[i].key : i \in DOMAIN prefs}

\* a score of 0..1 as a rational
scoreDescriptionSimilarity(a, b) ==
  IF a = <<>> \/ b = <<>> THEN <<0, 1>>
  ELSE IF a = b THEN <<1, 1>>
  ELSE LET intersect == Cardinality(CharSet(a) \cap CharSet(b))
           union == Cardinality(CharSet(a) \cup CharSet(b))
           containsBonus == IF Includes(a, b) \/ Includes(b, a) THEN 3 ELSE 0
           sum == <<10 * intersect + containsBonus * union, 10 * union>>
       IN IF RatLess(<<1, 1>>, sum) THEN <<1, 1>> ELSE RatReduce(sum)

RECENCY_WINDOW_DAYS == 45
PREF_SCORE_THRESHOLD == <<11, 20>>     \* 0.55
USAGE_CAP == 8

\* PrefScore with the weights of the similarity and of the recency exchanged:
\* similarity * 0.2 + recency * 0.7 + usage * 0.1
PrefScoreRecencyFirst(normalized, entry, type, now) ==
  LET savedNormalized == SliceFrom(entry.key, Len(TypeText(type)) + 2)
      similarity == scoreDescriptionSimilarity(normalized, savedNormalized)
      age == now - entry.pref.updatedAt
      recency == IF age >= RECENCY_WINDOW_DAYS THEN 0 ELSE RECENCY_WINDOW_DAYS - age
      usage == IF entry.pref.useCount >= USAGE_CAP THEN USAGE_CAP ELSE entry.pref.useCount
  IN RatReduce(<< 2 * similarity[1] * RECENCY_WINDOW_DAYS * USAGE_CAP
                    + 7 * recency * similarity[2] * USAGE_CAP
                    + usage * similarity[2] * RECENCY_WINDOW_DAYS,
                  10 * similarity[2] * RECENCY_WINDOW_DAYS * USAGE_CAP >>)

\* similarity * 0.7 + recency * 0.2 + usage * 0.1 of one entry, as a rational
PrefScore(normalized, entry, type, now) ==
  LET savedNormalized == SliceFrom(entry.key, Len(TypeText(type)) + 2)
      similarity == scoreDescriptionSimilarity(normalized, savedNormalized)
      age == now - entry.pref.updatedAt
      recency == IF age >= RECENCY_WINDOW_DAYS THEN 0 ELSE RECENCY_WINDOW_DAYS - age
      usage == IF entry.pref.useCount >= USAGE_CAP THEN USAGE_CAP ELSE entry.pref.useCount
  IN RatReduce(<< 7 * similarity[1] * RECENCY_WINDOW_DAYS * USAGE_CAP
                    + 2 * recency * similarity[2] * USAGE_CAP
                    + usage * similarity[2] * RECENCY_WINDOW_DAYS,
                  10 * similarity[2] * RECENCY_WINDOW_DAYS * USAGE_CAP >>)

\* the entries the forEach of findLearnedPref scores: the key starts with
\* `${type}::` and has a description
IsCandidate(entry, type) ==
  LET prefix == TypeText(type) \o <<":", ":">>
  IN /\ Len(entry.key) > Len(prefix)
     /\ SubSeq(entry.key, 1, Len(prefix)) = prefix

\* the index of the best entry after the first k entries, 0 when none, given
\* the best index and score so far
RECURSIVE BestEntry(_, _, _, _, _, _)
BestEntry(prefs, normalized, type, now, k, best) ==
  IF k > Len(prefs) THEN best
  ELSE LET score == PrefScore(normalized, prefs[k], type, now)
       IN IF IsCandidate(prefs[k], type) /\ RatLess(best.score, score)
            THEN BestEntry(prefs, normalized, type, now, k + 1, [at |-> k, score |-> score])
            ELSE BestEntry(prefs, normalized, type, now, k + 1, best)

\* findLearnedPref without the lookup of the exact key
findLearnedPrefFuzzyOnly(prefs, type, description, now) ==
  LET normalized == normalizeDesc(description)
      best == BestEntry(prefs, normalized, type, now, 1, [at |-> 0, score |-> <<0, 1>>])
  IN IF best.at > 0 /\ RatGeq(best.score, PREF_SCORE_THRESHOLD) THEN <<prefs[best.at].pref>>
     ELSE <<>>

\* <<>> for undefined, <<pref>> otherwise
findLearnedPref(prefs, type, description, now) ==
  LET normalized == normalizeDesc(description)
      key == makePrefKey(type, description)
      best == BestEntry(prefs, normalized, type, now, 1, [at |-> 0, score |-> <<0, 1>>])
  IN IF HasKey(prefs, key) THEN <<At(prefs, key)>>
     ELSE IF best.at > 0 /\ RatGeq(best.score, PREF_SCORE_THRESHOLD) THEN <<prefs[best.at].pref>>
     ELSE <<>>

\* upsertLearnedPref without the count of the uses: every write starts at 1
upsertWithoutCount(prefs, key, pref) ==
  LET written == [type |-> pref.type, accountId |-> pref.accountId,
                  toAccountId |-> pref.toAccountId, category |-> pref.category,
                  updatedAt |-> pref.updatedAt, useCount |-> 1]
  IN IF HasKey(prefs, key)
       THEN [i \in DOMAIN prefs |->
               IF prefs[i].key = key THEN [key |-> key, pref |-> written] ELSE prefs[i]]
       ELSE Append(prefs, [key |-> key, pref |-> written])

\* { ...prefs, [key]: { ...pref, useCount: (prev?.useCount ?? 0) + 1 } }
upsertLearnedPref(prefs, key, pref) ==
  LET written == [type |-> pref.type, accountId |-> pref.accountId,
                  toAccountId |-> pref.toAccountId, category |-> pref.category,
                  updatedAt |-> pref.updatedAt,
                  useCount |-> (IF HasKey(prefs, key) THEN At(prefs, key).useCount ELSE 0) + 1]
  IN IF HasKey(prefs, key)
       THEN [i \in DOMAIN prefs |->
               IF prefs[i].key = key THEN [key |-> key, pref |-> written] ELSE prefs[i]]
       ELSE Append(prefs, [key |-> key, pref |-> written])

\* The learned preferences of the form and of the application, and the record
\* of the local database they share.

\* U5348 U9910 (lunch)
Descriptions == { <<"T", "e", "a">>, <<" ", "t", "e", "a", "!">>, <<"U5348", "U9910">> }
PrefTypes == {"expense", "income"}
AccountIds == {"acc-cash", "acc-bank"}

\* at most MaxWrites submissions and edits, over MaxDays days
MaxWrites == 2
MaxDays == 1

VARIABLES
  stored,        \* the map under LEARNED_PREFS_DB_KEY in the local database
  learnedPrefs,  \* the learnedPrefs state of TransactionForm
  formLoaded,    \* the initial load of the form has set learnedPrefs
  pendingWrites, \* the maps of the saveLearnedPrefsStorage calls not yet written
  now,           \* Date.now(), in days
  writes         \* the submissions and edits so far

prefVars == <<stored, learnedPrefs, formLoaded, pendingWrites, now, writes>>

\* the maps the database holds when the form is mounted: none yet, or the map
\* of an earlier session (U5348 U9910, lunch, paid in cash)
StoredAtStart ==
  { <<>>,
    << [key |-> makePrefKey("expense", <<"U5348", "U9910">>),
        pref |-> [type |-> "expense", accountId |-> "acc-cash", toAccountId |-> "none",
                  category |-> "chosen", updatedAt |-> 0, useCount |-> 1]] >> }

\* The form is mounted with an empty map and its load under way.
PrefsInit ==
  /\ stored \in StoredAtStart
  /\ learnedPrefs = <<>>
  /\ formLoaded = FALSE
  /\ pendingWrites = <<>>
  /\ now = 0
  /\ writes = 0

\* The initial load of the form: loadLearnedPrefsStorage reads the database and
\* setLearnedPrefs(loaded) replaces the map of the form.
FormLoad ==
  /\ ~formLoaded
  /\ formLoaded' = TRUE
  /\ learnedPrefs' = stored
  /\ UNCHANGED <<stored, pendingWrites, now, writes>>

\* the record handleSubmit and handleAiParse pass to persistLearnedPref
SubmittedPref(type, accountId) ==
  [type |-> type, accountId |-> accountId, toAccountId |-> "none",
   category |-> "chosen", updatedAt |-> now]

\* A submission of the form with a description: persistLearnedPref upserts into
\* the map of the form and saves the whole map.
FormSubmit(type, description, accountId) ==
  /\ writes < MaxWrites
  /\ Trim(description) # <<>>
  /\ learnedPrefs' = upsertLearnedPref(learnedPrefs, makePrefKey(type, description),
                                       SubmittedPref(type, accountId))
  /\ pendingWrites' = Append(pendingWrites, learnedPrefs')
  /\ writes' = writes + 1
  /\ UNCHANGED <<stored, formLoaded, now>>

normalizeLearnedDesc(text) ==
  LET trimmed == Trim(toLowerCase(text))
      unspaced == SelectSeq(trimmed, LAMBDA c : c \notin WhiteSpace)
  IN SelectSeq(unspaced, LAMBDA c : c \notin PunctChars)

makeLearnedPrefKey(type, description) ==
  TypeText(type) \o <<":", ":">> \o normalizeLearnedDesc(description)

\* the map persistLearnedPrefFromTransaction saves, from the map it loaded
EditedPrefs(prev, type, description, accountId) ==
  LET key == makeLearnedPrefKey(type, Trim(description))
      written == [type |-> type, accountId |-> accountId, toAccountId |-> "none",
                  category |-> "chosen", updatedAt |-> now,
                  useCount |-> (IF HasKey(prev, key) THEN At(prev, key).useCount ELSE 0) + 1]
  IN IF HasKey(prev, key)
       THEN [i \in DOMAIN prev |->
               IF prev[i].key = key THEN [key |-> key, pref |-> written] ELSE prev[i]]
       ELSE Append(prev, [key |-> key, pref |-> written])

\* An edit of a transaction: persistLearnedPrefFromTransaction loads the map of
\* the database, writes its key into the copy and saves the copy.
EditTransaction(type, description, accountId) ==
  /\ writes < MaxWrites
  /\ Trim(description) # <<>>
  /\ pendingWrites' = Append(pendingWrites, EditedPrefs(stored, type, description, accountId))
  /\ writes' = writes + 1
  /\ UNCHANGED <<stored, learnedPrefs, formLoaded, now>>

\* writeByKey puts the map of the oldest save into the database
CommitWrite ==
  /\ pendingWrites # <<>>
  /\ stored' = Head(pendingWrites)
  /\ pendingWrites' = Tail(pendingWrites)
  /\ UNCHANGED <<learnedPrefs, formLoaded, now, writes>>

\* a day passes
Tick ==
  /\ now < MaxDays
  /\ now' = now + 1
  /\ UNCHANGED <<stored, learnedPrefs, formLoaded, pendingWrites, writes>>

\* ------------------------------------------------- the local parse on its own

\* parseTransactionLocal called with no accounts, over texts of dates and
\* amounts, on both days and on both sides of UTC.

\* the most words of a text of dates and amounts
MaxDateWords == 3

\* U6628 U5929 (yesterday), U524D U5929 (the day before yesterday), a full date,
\* a short date, an amount, a Latin word and a space
DateWords ==
  << YESTERDAY,
     DAY_BEFORE_YESTERDAY,
     <<"2", "0", "2", "4", "/", "3", "/", "5">>,
     <<"3", "-", "5">>,
     <<"1", "8">>,
     <<"t", "e", "a">>,
     <<" ">> >>

RECURSIVE DateWordLists(_)
DateWordLists(n) ==
  IF n = 0 THEN {<<>>}
  ELSE {Append(ws, DateWords[k]) : ws \in DateWordLists(n - 1), k \in DOMAIN DateWords}

DateTexts == {Concat(ws) : ws \in UNION {DateWordLists(n) : n \in 1..MaxDateWords}}

\* getLocalDateString(new Date()) at the time of the call: the day after a leap
\* day, and the first day of a year
Todays ==
  { <<"2", "0", "2", "4", "-", "0", "3", "-", "0", "1">>,
    <<"2", "0", "2", "4", "-", "0", "1", "-", "0", "1">> }

VARIABLE
  localParse  \* the call of parseTransactionLocal and the ParsedInput it returned

NoLocalParse == [done |-> FALSE]

LocalInit == localParse = NoLocalParse

\* parseTransactionLocal(input, [], availableCategories, today)
ParseLocal(snapshot, input, today, behindUTC) ==
  /\ ~localParse.done
  /\ localParse' = [done |-> TRUE, snapshot |-> snapshot, input |-> input, today |-> today,
                    behindUTC |-> behindUTC,
                    parsed |-> parseTransactionLocal(snapshot, input, <<>>, Categories,
                                                     today, behindUTC)]

\* --------------------------------------------------- the fields of the form

\* The state of TransactionForm the learned preferences prefill, and the
\* handlers that write it. A handler sets state, the component renders, and the
\* effects whose dependencies changed run: the handler and the effects it
\* triggers are one step.

\* the categories of the form: those of the parser and U8F49 U5E33 (transfer)
FormCategories == Categories \o << [name |-> TRANSFER_CATEGORY, type |-> "transfer"] >>

\* the ids of the accounts of the form, in the order of the list
FormAccounts == <<"acc-cash", "acc-bank">>

\* the types the form is switched between
FormTypes == {"expense", "transfer"}

\* U5348 U9910 (lunch) and U665A U9910 U8CBB (dinner fee)
FormDescriptions ==
  { <<"U5348", "U9910">>, <<"U665A", "U9910", "U8CBB">> }

\* the submissions of the form at most
MaxSubmits == 1

\* U5176 U4ED6 (other) and U5176 U4ED6 U6536 U5165 (other income)
OTHER_CATEGORY == <<"U5176", "U4ED6">>
OTHER_INCOME == <<"U5176", "U4ED6", "U6536", "U5165">>

VARIABLE
  form  \* type, description, category, accountId, toAccountId and the three
        \* userAdjusted flags of TransactionForm; learned is what findLearnedPref
        \* gave the last run of the prefill effect, debounce its timer

\* categories.filter((c) => !c.type || c.type === txType).map((c) => c.name)
getAllowedCategoryNames(categories, txType) ==
  LET allowed == SelectSeq(categories, LAMBDA c : c.type \in {"none", txType})
  IN [k \in DOMAIN allowed |-> allowed[k].name]

ensureCategoryForType(categories, txType, candidate) ==
  LET allowed == getAllowedCategoryNames(categories, txType)
      fuzzy == {k \in DOMAIN allowed :
                  Includes(allowed[k], candidate) \/ Includes(candidate, allowed[k])}
  IN IF txType = "transfer" THEN TRANSFER_CATEGORY
     ELSE IF allowed = <<>> THEN (IF txType = "income" THEN OTHER_INCOME ELSE OTHER_CATEGORY)
     ELSE IF Truthy(candidate) /\ (\E k \in DOMAIN allowed : allowed[k] = candidate) THEN candidate
     ELSE IF Truthy(candidate) /\ fuzzy # {} THEN allowed[Min(fuzzy)]
     ELSE allowed[1]

\* the effect on [filteredCategories, category]: a category the type does not
\* allow gives way to the first one allowed
CategoryEffect(f) ==
  LET allowed == getAllowedCategoryNames(FormCategories, f.type)
  IN IF \E k \in DOMAIN allowed : allowed[k] = f.category THEN f
     ELSE [f EXCEPT !.category = IF allowed = <<>> THEN <<>> ELSE allowed[1]]

\* the effect on [accounts, accountId, toAccountId]
AccountEffect(f) ==
  LET known(id) == \E k \in DOMAIN FormAccounts : FormAccounts[k] = id
      first == IF FormAccounts = <<>> THEN "" ELSE FormAccounts[1]
      second == IF Len(FormAccounts) >= 2 THEN FormAccounts[2] ELSE first
  IN [f EXCEPT !.accountId = IF known(@) THEN @ ELSE first,
               !.toAccountId = IF known(@) THEN @ ELSE second]

\* the prefill effect without the userAdjusted flags: a hit fills every field
PrefillIgnoringFlags(f, prefs, time) ==
  LET desc == Trim(f.description)
      learned == findLearnedPref(prefs, f.type, desc, time)
  IN IF Len(desc) < 2 \/ FormAccounts = <<>>
       THEN [f EXCEPT !.learned = <<>>, !.debounce = "none"]
     ELSE IF learned # <<>>
       THEN [f EXCEPT
               !.learned = learned,
               !.debounce = "none",
               !.category = IF Truthy(learned[1].category)
                              THEN ensureCategoryForType(FormCategories, f.type, learned[1].category)
                              ELSE @,
               !.accountId = IF learned[1].accountId # "none" THEN learned[1].accountId ELSE @,
               !.toAccountId = IF learned[1].toAccountId # "none"
                                 THEN learned[1].toAccountId ELSE @]
     ELSE [f EXCEPT !.learned = <<>>, !.debounce = "pending"]

\* the prefill effect: a learned hit fills the fields the user has not adjusted;
\* without a hit the debounced parse is scheduled; the cleanup of the run before
\* has cleared its timer
PrefillEffect(f, prefs, time) ==
  LET desc == Trim(f.description)
      learned == findLearnedPref(prefs, f.type, desc, time)
  IN IF Len(desc) < 2 \/ FormAccounts = <<>>
       THEN [f EXCEPT !.learned = <<>>, !.debounce = "none"]
     ELSE IF learned # <<>>
       THEN [f EXCEPT
               !.learned = learned,
               !.debounce = "none",
               !.category = IF ~f.userAdjustedCategory /\ Truthy(learned[1].category)
                              THEN ensureCategoryForType(FormCategories, f.type, learned[1].category)
                              ELSE @,
               !.accountId = IF ~f.userAdjustedAccount /\ learned[1].accountId # "none"
                               THEN learned[1].accountId ELSE @,
               !.toAccountId = IF ~f.userAdjustedToAccount /\ learned[1].toAccountId # "none"
                                 THEN learned[1].toAccountId ELSE @]
     ELSE [f EXCEPT !.learned = <<>>, !.debounce = "pending"]

\* the dependencies of the prefill effect that change in this machine
PrefillDeps(f, prefs) ==
  <<f.description, f.type, f.userAdjustedCategory, f.userAdjustedAccount,
    f.userAdjustedToAccount, prefs>>

\* the render after a handler has set `next` and `prefs`, the effects of that
\* render, and the render their setters cause
Rendered(prev, prevPrefs, next, prefs, time) ==
  LET settled == AccountEffect(CategoryEffect(next))
  IN IF PrefillDeps(prev, prevPrefs) # PrefillDeps(next, prefs)
       THEN AccountEffect(CategoryEffect(PrefillEffect(settled, prefs, time)))
       ELSE settled

\* the form after its mount: the category effect has set the first category
FormAtMount ==
  CategoryEffect([type |-> "expense", description |-> <<>>, category |-> <<>>,
                  accountId |-> FormAccounts[1], toAccountId |-> FormAccounts[2],
                  userAdjustedCategory |-> FALSE, userAdjustedAccount |-> FALSE,
                  userAdjustedToAccount |-> FALSE, learned |-> <<>>, debounce |-> "none"])

\* the maps the database holds when the form is mounted: none, or the map of
\* earlier sessions: lunch as an expense 50 days ago, U5348 U9910 U8CBB (lunch
\* fee) as an expense two days ago and as a transfer three days ago
FormStoredAtStart ==
  { <<>>,
    << [key |-> makePrefKey("expense", <<"U5348", "U9910">>),
        pref |-> [type |-> "expense", accountId |-> "acc-bank", toAccountId |-> "none",
                  category |-> OTHER_CATEGORY, updatedAt |-> -50, useCount |-> 1]],
       [key |-> makePrefKey("expense", <<"U5348", "U9910", "U8CBB">>),
        pref |-> [type |-> "expense", accountId |-> "acc-bank", toAccountId |-> "none",
                  category |-> OTHER_CATEGORY, updatedAt |-> -2, useCount |-> 1]],
       [key |-> makePrefKey("transfer", <<"U5348", "U9910", "U8CBB">>),
        pref |-> [type |-> "transfer", accountId |-> "acc-bank", toAccountId |-> "acc-cash",
                  category |-> TRANSFER_CATEGORY, updatedAt |-> -3, useCount |-> 1]] >> }

FormInit ==
  /\ stored \in FormStoredAtStart
  /\ learnedPrefs = <<>>
  /\ formLoaded = FALSE
  /\ pendingWrites = <<>>
  /\ now = 0
  /\ writes = 0
  /\ form = FormAtMount

\* setLearnedPrefs(loaded) of the initial load, and the prefill it triggers
LoadLearnedPrefs ==
  /\ FormLoad
  /\ form' = Rendered(form, learnedPrefs, form, learnedPrefs', now)

\* onChange of the description input
ChangeDescription(description) ==
  /\ description # form.description
  /\ form' = Rendered(form, learnedPrefs,
                      [form EXCEPT !.description = description,
                                   !.userAdjustedCategory = FALSE,
                                   !.userAdjustedAccount = FALSE,
                                   !.userAdjustedToAccount = FALSE],
                      learnedPrefs, now)
  /\ UNCHANGED prefVars

\* onClick of a type button
ChangeType(type) ==
  /\ type # form.type
  /\ form' = Rendered(form, learnedPrefs, [form EXCEPT !.type = type], learnedPrefs, now)
  /\ UNCHANGED prefVars

\* onClick of a category button, shown for an expense and an income
PickCategory(name) ==
  /\ form.type # "transfer"
  /\ \E k \in DOMAIN getAllowedCategoryNames(FormCategories, form.type) :
       getAllowedCategoryNames(FormCategories, form.type)[k] = name
  /\ form' = Rendered(form, learnedPrefs,
                      [form EXCEPT !.category = name, !.userAdjustedCategory = TRUE],
                      learnedPrefs, now)
  /\ UNCHANGED prefVars

\* onClick of an account of the source menu
PickAccount(id) ==
  /\ form' = Rendered(form, learnedPrefs,
                      [form EXCEPT !.accountId = id, !.userAdjustedAccount = TRUE],
                      learnedPrefs, now)
  /\ UNCHANGED prefVars

\* onClick of an account of the target menu, shown for a transfer
PickToAccount(id) ==
  /\ form.type = "transfer"
  /\ form' = Rendered(form, learnedPrefs,
                      [form EXCEPT !.toAccountId = id, !.userAdjustedToAccount = TRUE],
                      learnedPrefs, now)
  /\ UNCHANGED prefVars

\* handleSubmit with an amount above zero: the fields are learned under the key
\* of the description, the description is emptied and the flags are reset
HandleSubmit ==
  /\ form.accountId # ""
  /\ IF Trim(form.description) # <<>>
       THEN /\ writes < MaxSubmits
            /\ learnedPrefs' =
                 upsertLearnedPref(learnedPrefs, makePrefKey(form.type, form.description),
                                   [type |-> form.type, accountId |-> form.accountId,
                                    toAccountId |-> IF form.type = "transfer"
                                                      THEN form.toAccountId ELSE "none",
                                    category |-> IF form.type = "transfer"
                                                   THEN TRANSFER_CATEGORY ELSE form.category,
                                    updatedAt |-> now])
            /\ pendingWrites' = Append(pendingWrites, learnedPrefs')
            /\ writes' = writes + 1
       ELSE UNCHANGED <<learnedPrefs, pendingWrites, writes>>
  /\ form' = Rendered(form, learnedPrefs,
                      [form EXCEPT !.description = <<>>,
                                   !.userAdjustedCategory = FALSE,
                                   !.userAdjustedAccount = FALSE,
                                   !.userAdjustedToAccount = FALSE],
                      learnedPrefs', now)
  /\ UNCHANGED <<stored, formLoaded, now>>

\* ------------------------------------------- the resolver and the helpers
\* ------------------------------------------- applied on their own

\* One call of a function of the parser on a text of a small vocabulary.

\* the most words of a text given to the resolver
MaxAccountWords == 3

\* U73FE U91D1 (cash), U9280 U884C (bank), U570B U6CF0 U4E16 and U570B U6CF0 U4E16
\* U83EF (the first three and four characters of a bank), U570B U6CF0 U8B49 (the
\* first three of a broker) and U5230 (to)
AccountWords ==
  << <<"U73FE", "U91D1">>,
     <<"U9280", "U884C">>,
     <<"U570B", "U6CF0", "U4E16">>,
     <<"U570B", "U6CF0", "U4E16", "U83EF">>,
     <<"U570B", "U6CF0", "U8B49">>,
     <<"U5230">> >>

RECURSIVE AccountWordLists(_)
AccountWordLists(n) ==
  IF n = 0 THEN {<<>>}
  ELSE {Append(ws, AccountWords[k]) : ws \in AccountWordLists(n - 1), k \in DOMAIN AccountWords}

AccountTexts == {Concat(ws) : ws \in UNION {AccountWordLists(n) : n \in 1..MaxAccountWords}}

\* cash and a bank account; cash, a broker and a bank whose names start alike
\* (U570B U6CF0 U8B49 U5238, U570B U6CF0 U4E16 U83EF U9280 U884C)
ResolverAccountLists ==
  { << <<"U73FE", "U91D1">>, <<"U9280", "U884C", "U5E33", "U6236">> >>,
    << <<"U73FE", "U91D1">>,
       <<"U570B", "U6CF0", "U8B49", "U5238">>,
       <<"U570B", "U6CF0", "U4E16", "U83EF", "U9280", "U884C">> >> }

VARIABLE
  applied  \* the function called, its arguments and the value it returned

NoneApplied == [fn |-> "none"]

AppliedInit == applied = NoneApplied

\* findAccountMentionsInText(text, accounts)
FindMentions(text, accounts) ==
  /\ applied.fn = "none"
  /\ applied' = [fn |-> "findAccountMentionsInText", text |-> text, accounts |-> accounts,
                 value |-> findAccountMentionsInText(text, accounts)]

\* extractTransferAccounts(text, accounts)
ExtractTransfer(text, accounts) ==
  /\ applied.fn = "none"
  /\ applied' = [fn |-> "extractTransferAccounts", text |-> text, accounts |-> accounts,
                 value |-> extractTransferAccounts(text, accounts)]

\* the longest text given to a normalization
MaxNormLen == 3

\* a capital and a small letter, a space, a hyphen, U3002 (an ideographic full
\* stop) and U5348 (a CJK character)
NormChars == {"A", "b", " ", "-", "U3002", "U5348"}

RECURSIVE TextsOver(_, _)
TextsOver(chars, n) ==
  IF n = 0 THEN {<<>>}
  ELSE TextsOver(chars, n - 1)
         \cup {Append(t, c) : t \in {u \in TextsOver(chars, n - 1) : Len(u) = n - 1}, c \in chars}

NormTexts == TextsOver(NormChars, MaxNormLen)

\* normalizeLoose(text)
NormalizeLoose(text) ==
  /\ applied.fn = "none"
  /\ applied' = [fn |-> "normalizeLoose", text |-> text, value |-> normalizeLoose(text)]

\* normalizeDesc(text)
NormalizeDesc(text) ==
  /\ applied.fn = "none"
  /\ applied' = [fn |-> "normalizeDesc", text |-> text, value |-> normalizeDesc(text)]

\* 薪水 獎金 股利 薪資 tea
IncomeWords ==
  << <<"U85AA", "U6C34">>, <<"U734E", "U91D1">>, <<"U80A1", "U5229">>,
     <<"U85AA", "U8CC7">>, <<"t", "e", "a">> >>

\* one word, or two words one after the other
IncomeTexts ==
  {IncomeWords[i] : i \in DOMAIN IncomeWords}
    \cup {IncomeWords[i] \o IncomeWords[j] : i \in DOMAIN IncomeWords, j \in DOMAIN IncomeWords}

\* the names parseTransactionLocal passes for an income out of Categories
\* (薪資 其他), and the lists 其他 獎金 薪資, 投資 and 其他
IncomeCategoryLists ==
  { << <<"U85AA", "U8CC7">>, <<"U5176", "U4ED6">> >>,
    << <<"U5176", "U4ED6">>, <<"U734E", "U91D1">>, <<"U85AA", "U8CC7">> >>,
    << <<"U6295", "U8CC7">> >>,
    << <<"U5176", "U4ED6">> >> }

\* inferCategoryFromText(text, categories, type)
InferCategory(snapshot, text, categories, type) ==
  /\ applied.fn = "none"
  /\ applied' = [fn |-> "inferCategoryFromText", snapshot |-> snapshot, text |-> text,
                 categories |-> categories, type |-> type,
                 value |-> inferCategoryFromText(snapshot, text, categories, type)]

\* the account names of the lists
ResolverAccountNames ==
  UNION {{accounts[i] : i \in DOMAIN accounts} : accounts \in ResolverAccountLists}

\* getAccountHintBoost(normalizeLoose(text), normalizeLoose(name)), as
\* findAccountMentionsInText calls it for one account
HintBoost(text, name) ==
  /\ applied.fn = "none"
  /\ applied' = [fn |-> "getAccountHintBoost", inputNormalized |-> normalizeLoose(text),
                 accountNormalized |-> normalizeLoose(name),
                 value |-> getAccountHintBoost(normalizeLoose(text), normalizeLoose(name))]

\* ------------------------------------------- the debounced parse of the form

\* the names of FormAccounts, in the order of the list: U73FE U91D1 (cash) and
\* U9280 U884C U5E33 U6236 (bank account)
FormAccountNames ==
  << <<"U73FE", "U91D1">>, <<"U9280", "U884C", "U5E33", "U6236">> >>

\* the callbacks of the prefill effect awaiting parseTransactionAI at most
MaxInFlight == 1

VARIABLE
  prefillCalls  \* the callbacks of the 450 ms timer that await parseTransactionAI,
                \* each with the desc, the type and the flags its closure holds

PrefillCallsInit == prefillCalls = {}

\* resolveAccount(name) of the form.  The accountName and toAccountName of a
\* result of parseTransactionAI are names of the list it was given, so the
\* lookup by the exact name finds them and the scoring after it is not reached.
resolveAccount(name) ==
  LET exact == {k \in DOMAIN FormAccountNames : FormAccountNames[k] = name}
  IN IF ~Truthy(name) \/ exact = {} THEN "none" ELSE FormAccounts[Min(exact)]

\* what parseTransactionAI of services/geminiService resolves with for the desc
\* of a callback: the local fallback (no answer in time, a rejection, a
\* malformed answer) or the merge of an answer
ParseOutcomesOf(desc, local) ==
  {local} \cup {mergeRemote("geminiService", desc, FormAccountNames, local, ParseResponse(text)) :
                  text \in {t \in Responses : ~ParseResponse(t).throws}}

ParseOutcomes(desc) ==
  ParseOutcomesOf(desc, parseTransactionLocal("geminiService", desc, FormAccountNames,
                                              FormCategories, Today, BehindUTC))

\* the 450 ms timer of the last run of the prefill effect fires: its callback
\* calls parseTransactionAI with the desc of its closure and awaits the result
DebounceFire ==
  /\ form.debounce = "pending"
  /\ Cardinality(prefillCalls) < MaxInFlight
  /\ prefillCalls' = prefillCalls \cup
       {[desc |-> Trim(form.description), type |-> form.type,
         userAdjustedCategory |-> form.userAdjustedCategory,
         userAdjustedAccount |-> form.userAdjustedAccount,
         userAdjustedToAccount |-> form.userAdjustedToAccount]}
  /\ form' = [form EXCEPT !.debounce = "none"]
  /\ UNCHANGED prefVars

\* the setters the callback runs with the result, guarded by the flags of its
\* closure
AppliedResult(f, c, parsed) ==
  [f EXCEPT
     !.category = IF ~c.userAdjustedCategory /\ Truthy(parsed.categoryName)
                    THEN ensureCategoryForType(FormCategories, c.type, parsed.categoryName)
                    ELSE @,
     !.accountId = IF ~c.userAdjustedAccount /\ resolveAccount(parsed.accountName) # "none"
                     THEN resolveAccount(parsed.accountName) ELSE @,
     !.toAccountId = IF ~c.userAdjustedToAccount /\ resolveAccount(parsed.toAccountName) # "none"
                       THEN resolveAccount(parsed.toAccountName) ELSE @]

\* parseTransactionAI resolves and the callback goes on after its await
ParseResolve(c, parsed) ==
  /\ c \in prefillCalls
  /\ prefillCalls' = prefillCalls \ {c}
  /\ form' = Rendered(form, learnedPrefs, AppliedResult(form, c, parsed), learnedPrefs, now)
  /\ UNCHANGED prefVars

\* the entries of a map given to findLearnedPref at most
MaxStoredPrefs == 2

\* U5348 U9910 (lunch), U665A U9910 (dinner) and U8ECA U7968 (a ticket), which
\* shares no character with the other two
LookupDescriptions ==
  { <<"U5348", "U9910">>, <<"U665A", "U9910">>, <<"U8ECA", "U7968">> }

\* a record of an expense learned for the description; the account tells the
\* records of different descriptions apart.  The lookups are made at the time
\* 0: the record was updated then, 50 days before or, by a clock that has since
\* been set back, 100 days after.
LookupEntries ==
  { [key |-> makePrefKey("expense", description),
     pref |-> [type |-> "expense",
               accountId |-> CASE description = <<"U5348", "U9910">> -> "acc-cash"
                               [] description = <<"U665A", "U9910">> -> "acc-bank"
                               [] OTHER -> "acc-card",
               toAccountId |-> "none", category |-> OTHER_CATEGORY,
               updatedAt |-> updatedAt, useCount |-> useCount]] :
      description \in LookupDescriptions, updatedAt \in {0, -50, 100},
      useCount \in {1, USAGE_CAP} }

\* the maps of n entries with different keys
RECURSIVE LookupMapsOf(_)
LookupMapsOf(n) ==
  IF n = 0 THEN {<<>>}
  ELSE {Append(prefs, e) : prefs \in LookupMapsOf(n - 1),
                           e \in LookupEntries}

LookupMaps ==
  {prefs \in UNION {LookupMapsOf(n) : n \in 1..MaxStoredPrefs} :
     \A i, j \in DOMAIN prefs : i # j => prefs[i].key # prefs[j].key}

\* findLearnedPref(prefs, type, description) when Date.now() gives time
FindLearnedPref(prefs, description, time) ==
  /\ applied.fn = "none"
  /\ applied' = [fn |-> "findLearnedPref", prefs |-> prefs, type |-> "expense",
                 description |-> description, now |-> time,
                 value |-> findLearnedPref(prefs, "expense", description, time)]

vars == <<pc, call, fallback, aiCall, timer, response, remoteCalls, result,
          stored, learnedPrefs, formLoaded, pendingWrites, now, writes, localParse, form,
          applied, prefillCalls>>

\* ------------------------------------------------------ the specifications

\* the parser and the learned preferences at the start
InitPrefs ==
  ParserInit /\ PrefsInit /\ LocalInit /\ form = FormAtMount /\ AppliedInit /\ PrefillCallsInit

\* for the parser the database is empty
Init == InitPrefs /\ stored = <<>>

\* one call of parseTransactionAI
Next ==
  \/ /\ pc = "idle"
     /\ \E snapshot \in Snapshots, input \in InputTexts, accounts \in AccountLists :
          Invoke(snapshot, input, accounts)
     /\ UNCHANGED <<prefVars, localParse, form, applied, prefillCalls>>
  \/ \E text \in Responses : AiFulfil(text) /\ UNCHANGED <<prefVars, localParse, form, applied, prefillCalls>>
  \/ AiReject /\ UNCHANGED <<prefVars, localParse, form, applied, prefillCalls>>
  \/ TimerFire /\ UNCHANGED <<prefVars, localParse, form, applied, prefillCalls>>

Spec == Init /\ [][Next]_vars

\* the learned preferences
NextPrefs ==
  \/ FormLoad /\ UNCHANGED <<parserVars, localParse, form, applied, prefillCalls>>
  \/ \E type \in PrefTypes, description \in Descriptions, accountId \in AccountIds :
       FormSubmit(type, description, accountId) /\ UNCHANGED <<parserVars, localParse, form, applied, prefillCalls>>
  \/ \E type \in PrefTypes, description \in Descriptions, accountId \in AccountIds :
       EditTransaction(type, description, accountId) /\ UNCHANGED <<parserVars, localParse, form, applied, prefillCalls>>
  \/ CommitWrite /\ UNCHANGED <<parserVars, localParse, form, applied, prefillCalls>>
  \/ Tick /\ UNCHANGED <<parserVars, localParse, form, applied, prefillCalls>>

SpecPrefs == InitPrefs /\ [][NextPrefs]_vars

\* one call of parseTransactionLocal
NextLocal ==
  /\ \E snapshot \in Snapshots, input \in DateTexts, today \in Todays, behindUTC \in BOOLEAN :
       ParseLocal(snapshot, input, today, behindUTC)
  /\ UNCHANGED <<parserVars, prefVars, form, applied, prefillCalls>>

SpecLocal == Init /\ [][NextLocal]_vars

\* the form at its mount, with the database of earlier sessions
InitForm == ParserInit /\ LocalInit /\ FormInit /\ AppliedInit /\ PrefillCallsInit

\* the handlers of the form, within one day and with the saves of the map
\* still under way
NextForm ==
  \/ LoadLearnedPrefs /\ UNCHANGED <<parserVars, localParse, applied, prefillCalls>>
  \/ \E description \in FormDescriptions \cup {<<>>} :
       ChangeDescription(description) /\ UNCHANGED <<parserVars, localParse, applied, prefillCalls>>
  \/ \E type \in FormTypes : ChangeType(type) /\ UNCHANGED <<parserVars, localParse, applied, prefillCalls>>
  \/ \E k \in DOMAIN FormCategories :
       PickCategory(FormCategories[k].name) /\ UNCHANGED <<parserVars, localParse, applied, prefillCalls>>
  \/ \E k \in DOMAIN FormAccounts :
       PickAccount(FormAccounts[k]) /\ UNCHANGED <<parserVars, localParse, applied, prefillCalls>>
  \/ \E k \in DOMAIN FormAccounts :
       PickToAccount(FormAccounts[k]) /\ UNCHANGED <<parserVars, localParse, applied, prefillCalls>>
  \/ HandleSubmit /\ UNCHANGED <<parserVars, localParse, applied, prefillCalls>>

SpecForm == InitForm /\ [][NextForm]_vars

\* the form with its debounced parse, before the map of earlier sessions is
\* loaded
NextDebounce ==
  \/ \E description \in FormDescriptions \cup {<<>>} :
       ChangeDescription(description) /\ UNCHANGED <<parserVars, localParse, applied, prefillCalls>>
  \/ \E type \in FormTypes :
       ChangeType(type) /\ UNCHANGED <<parserVars, localParse, applied, prefillCalls>>
  \/ \E k \in DOMAIN FormCategories :
       PickCategory(FormCategories[k].name)
         /\ UNCHANGED <<parserVars, localParse, applied, prefillCalls>>
  \/ \E k \in DOMAIN FormAccounts :
       PickAccount(FormAccounts[k]) /\ UNCHANGED <<parserVars, localParse, applied, prefillCalls>>
  \/ \E k \in DOMAIN FormAccounts :
       PickToAccount(FormAccounts[k]) /\ UNCHANGED <<parserVars, localParse, applied, prefillCalls>>
  \/ DebounceFire /\ UNCHANGED <<parserVars, localParse, applied>>
  \/ \E c \in prefillCalls : \E parsed \in ParseOutcomes(c.desc) :
       ParseResolve(c, parsed) /\ UNCHANGED <<parserVars, localParse, applied>>

\* the form at its mount, with an empty database
InitDebounce == InitForm /\ stored = <<>>

SpecDebounce == InitDebounce /\ [][NextDebounce]_vars

\* one call of a function of the parser
NextApplied ==
  \/ \E text \in AccountTexts, accounts \in ResolverAccountLists :
       FindMentions(text, accounts) /\ UNCHANGED <<parserVars, prefVars, localParse, form, prefillCalls>>
  \/ \E text \in AccountTexts, accounts \in ResolverAccountLists :
       ExtractTransfer(text, accounts) /\ UNCHANGED <<parserVars, prefVars, localParse, form, prefillCalls>>
  \/ \E text \in NormTexts :
       NormalizeLoose(text) /\ UNCHANGED <<parserVars, prefVars, localParse, form, prefillCalls>>
  \/ \E text \in NormTexts :
       NormalizeDesc(text) /\ UNCHANGED <<parserVars, prefVars, localParse, form, prefillCalls>>
  \/ \E snapshot \in {"part_000", "geminiService"}, text \in IncomeTexts,
          categories \in IncomeCategoryLists, type \in {"income", "expense"} :
       InferCategory(snapshot, text, categories, type)
         /\ UNCHANGED <<parserVars, prefVars, localParse, form, prefillCalls>>
  \/ \E text \in AccountTexts, name \in ResolverAccountNames :
       HintBoost(text, name) /\ UNCHANGED <<parserVars, prefVars, localParse, form, prefillCalls>>
  \/ \E prefs \in LookupMaps, description \in LookupDescriptions :
       FindLearnedPref(prefs, description, 0)
         /\ UNCHANGED <<parserVars, prefVars, localParse, form, prefillCalls>>

SpecApplied == Init /\ [][NextApplied]_vars

\* ------------------------------------------------------------------ claims

\* the promise of parseTransactionAI is fulfilled with the fallback
ReturnedFallback == fallback # <<>> /\ result = Fulfilled(fallback)

\* C1: when the timer fires while the remote call is still pending, the
\* operation returns the local fallback; and once the operation has returned,
\* nothing changes the value it returned, in particular not a remote result that
\* arrives after the timeout.
C1_TimeoutReturnsFallback ==
  [][/\ (timer = "pending" /\ timer' = "fired" /\ aiCall = "pending")
          => (pc' = "returned" /\ fallback' # <<>> /\ result' = Fulfilled(fallback'))
     /\ pc = "returned" => result' = result]_vars

\* the timer fired first and a well-formed remote result arrived afterwards
C1_Witness ==
  /\ timer = "fired"
  /\ aiCall = "fulfilled"
  /\ ~ParseResponse(response[1]).throws
  /\ ReturnedFallback

\* C2: parseTransactionAI never rejects, and when the remote step fails (the
\* call is rejected, the timer fires, or the response text is not valid JSON)
\* the promise is fulfilled with exactly the fallback computed before the call.
C2_NeverRejects ==
  /\ result.state # "rejected"
  /\ ( /\ remoteCalls > 0
       /\ \/ aiCall = "rejected"
          \/ timer = "fired"
          \/ (aiCall = "fulfilled" /\ ParseResponse(response[1]).throws) )
     => ReturnedFallback

\* the response won the race and its text was not JSON
C2_Witness ==
  /\ aiCall = "fulfilled"
  /\ timer = "cleared"
  /\ ParseResponse(response[1]).throws
  /\ ReturnedFallback

\* a transfer names two different accounts
TransferExclusive(parsed) ==
  (parsed.type = "transfer" /\ Truthy(parsed.accountName))
    => parsed.accountName # parsed.toAccountName

\* C3: in part_000, in every ParsedInput parseTransactionLocal produces (the
\* fallback) and in every ParsedInput parseTransactionAI returns, merged results
\* included, a transfer has a source and a target that are not the same account.
C3_TransferExclusivity ==
  call.snapshot = "part_000" =>
    /\ fallback # <<>> => TransferExclusive(fallback[1])
    /\ result.value # <<>> => TransferExclusive(result.value[1])

\* the fallback of part_000 itself is a transfer from an account to that account
C3_Witness ==
  /\ call.snapshot = "part_000"
  /\ fallback # <<>>
  /\ fallback[1].type = "transfer"
  /\ Truthy(fallback[1].accountName)
  /\ fallback[1].accountName = fallback[1].toAccountName

\* the fallback is an expense with a positive amount, a source account and a
\* category
SufficientExpense(parsed) ==
  /\ parsed.type = "expense"
  /\ IsPositiveAmount(parsed.amount)
  /\ Truthy(parsed.accountName)
  /\ Truthy(parsed.categoryName)

\* C4: when a remote service is configured and the fallback is an expense with a
\* positive amount, a resolved source account and a resolved category,
\* parseTransactionAI makes no remote call and returns the fallback.
C4_FallbackSufficiency ==
  (pc # "idle" /\ call.apiKey /\ fallback # <<>> /\ SufficientExpense(fallback[1]))
    => (remoteCalls = 0 /\ ReturnedFallback)

\* part_000 has made the remote call for such a fallback
C4_Witness ==
  /\ call.snapshot = "part_000"
  /\ fallback # <<>>
  /\ SufficientExpense(fallback[1])
  /\ remoteCalls = 1

\* C7: one call of parseTransactionAI makes at most one remote call, on every
\* path, the paths on which the call times out or fails included.
C7_NoRetry == remoteCalls <= 1

\* the remote call was rejected and the timer fired: both failures, one call
C7_Witness == remoteCalls = 1 /\ aiCall = "rejected" /\ timer = "fired" /\ pc = "returned"

\* the fallback is a transfer between two different accounts
ResolvedTransfer(parsed) ==
  /\ parsed.type = "transfer"
  /\ Truthy(parsed.accountName)
  /\ Truthy(parsed.toAccountName)
  /\ parsed.accountName # parsed.toAccountName

\* C8: in part_000, the version of parseTransactionAI that has the transfer
\* short-circuit, a fallback that is a transfer with a source and a target, both
\* present and different, makes parseTransactionAI return the fallback unchanged
\* without a remote call.
C8_TransferShortCircuit ==
  (pc # "idle" /\ call.snapshot = "part_000" /\ fallback # <<>> /\ ResolvedTransfer(fallback[1]))
    => (remoteCalls = 0 /\ pc = "returned" /\ ReturnedFallback)

\* the short-circuit alone kept the call from the remote service
C8_Witness ==
  /\ call.snapshot = "part_000"
  /\ call.apiKey /\ ~call.localOnly /\ ~call.clientFails
  /\ fallback # <<>>
  /\ ResolvedTransfer(fallback[1])
  /\ pc = "returned"

\* C9: with localOnly, or without an API key, parseTransactionAI makes no
\* remote call and returns the fallback as it is, for every input that is not
\* empty once trimmed (an input that is returns null before the fallback is
\* computed).
C9_LocalOnly ==
  (pc # "idle" /\ Trim(call.input) # <<>> /\ (call.localOnly \/ ~call.apiKey))
    => (remoteCalls = 0 /\ pc = "returned" /\ ReturnedFallback)

\* localOnly alone kept a call that the gate lets through from the remote service
C9_Witness ==
  /\ pc = "returned"
  /\ call.localOnly /\ call.apiKey /\ ~call.clientFails
  /\ fallback # <<>>
  /\ ~SkipsRemoteCall(call.snapshot, fallback[1], call.input)
  /\ ReturnedFallback

\* the accounts the parser finds in the text: the mentions, and in part_000 the
\* accounts of extractTransferAccounts
AccountsFound(snapshot, text, accounts) ==
  CharSet(findAccountMentionsInText(text, accounts))
    \cup (IF snapshot = "part_000"
            THEN {extractTransferAccounts(text, accounts).from,
                  extractTransferAccounts(text, accounts).to} \ {Undefined, <<>>}
            ELSE {})

\* C10: when fewer than two distinct accounts are found in the input text,
\* parseTransactionLocal does not classify the text as a transfer, whatever
\* transfer keywords it holds.
C10_TransferNeedsTwoAccounts ==
  (fallback # <<>> /\ fallback[1].type = "transfer")
    => Cardinality(AccountsFound(call.snapshot, Trim(call.input), call.accounts)) >= 2

\* geminiService.ts has classified a text as a transfer without a source account
C10_Witness ==
  /\ call.snapshot = "geminiService"
  /\ fallback # <<>>
  /\ fallback[1].type = "transfer"
  /\ ~Truthy(fallback[1].accountName)

\* C5: over the submissions of the form, the edits of transactions and the
\* initial load of the form, the map in the database never loses a key and the
\* useCount under a key never decreases.
C5_StoreNeverLoses ==
  [][\A k \in Keys(stored) :
       HasKey(stored', k) /\ At(stored', k).useCount >= At(stored, k).useCount]_vars

\* every save is written, and the map in the database lacks a key of the map of
\* the form, which the form loaded from the database or saved to it
C5_Witness ==
  /\ pendingWrites = <<>>
  /\ \E k \in Keys(learnedPrefs) : ~HasKey(stored, k)

\* next is prefs with pref written at key as the claim has it: the useCount at
\* the key is the one prefs had there plus 1 (0 when it had none), the other
\* fields are those of pref, and every other key is as it was
WrittenThrough(prefs, next, key, pref) ==
  /\ Cardinality({i \in DOMAIN next : next[i].key = key}) = 1
  /\ \A field \in DOMAIN pref : At(next, key)[field] = pref[field]
  /\ At(next, key).useCount = (IF HasKey(prefs, key) THEN At(prefs, key).useCount ELSE 0) + 1
  /\ Keys(next) = Keys(prefs) \cup {key}
  /\ \A k \in Keys(prefs) \ {key} : At(next, k) = At(prefs, k)

\* C6: upsertLearnedPref(prefs, key, pref) sets the useCount at the key to the
\* useCount that was there plus 1 (0 when there was none), takes the other
\* fields from pref, leaves every other key as it was, and findLearnedPref of
\* the same type and description then returns the record just written.
C6_UpsertWriteThrough ==
  [][learnedPrefs' # learnedPrefs =>
     \A type \in PrefTypes, description \in Descriptions, accountId \in AccountIds :
       FormSubmit(type, description, accountId) =>
         /\ WrittenThrough(learnedPrefs, learnedPrefs', makePrefKey(type, description),
                           SubmittedPref(type, accountId))
         /\ findLearnedPref(learnedPrefs', type, description, now)
              = <<At(learnedPrefs', makePrefKey(type, description))>>]_vars

\* a key of the form was written a second time, later and with another account,
\* beside another key
C6_Witness ==
  /\ Len(learnedPrefs) >= 2
  /\ \E i \in DOMAIN learnedPrefs :
       /\ learnedPrefs[i].pref.useCount = 2
       /\ learnedPrefs[i].pref.updatedAt > 0

\* the order of the type, as the text has it: two tells that the directional
\* resolution gives two distinct accounts, income that the text holds an income
\* signal, promoted that it holds a transfer verb and two mentions
TypeInOrder(parsed, two, income, promoted) ==
  /\ two => parsed.type = "transfer"
  /\ (income /\ parsed.type = "transfer") => (two /\ ResolvedTransfer(parsed))
  /\ (income /\ ~two) => parsed.type = "income"
  /\ ~income => parsed.type # "income"
  /\ (~income /\ ~two /\ ~promoted) => parsed.type = "expense"

\* C11: in part_000 the type of parseTransactionLocal is transfer over an income
\* signal only when two distinct accounts are resolved; otherwise an income
\* keyword, an income verb or the word income makes it income; with no income
\* signal and no transfer it is expense.
C11_TypeOrder ==
  (call.snapshot = "part_000" /\ fallback # <<>>) =>
    TypeInOrder(fallback[1],
                hasTwoAccounts(extractTransferAccounts(Trim(call.input), call.accounts)),
                incomeByKeyword(Trim(call.input)),
                /\ transferByVerb(Trim(call.input))
                /\ Len(findAccountMentionsInText(Trim(call.input), call.accounts)) >= 2)

\* a text with an income signal that two accounts make a transfer
C11_Witness ==
  /\ call.snapshot = "part_000"
  /\ fallback # <<>>
  /\ fallback[1].type = "transfer"
  /\ incomeByKeyword(Trim(call.input))

\* a transfer carries the fixed category of transfers
TransferCategorised(parsed) ==
  parsed.type = "transfer" => parsed.categoryName = TRANSFER_CATEGORY

\* C12: in part_000 every ParsedInput of type transfer, the local parse and a
\* result merged from a remote response that sets the type to transfer alike,
\* has the fixed transfer category as categoryName.
C12_TransferCategory ==
  call.snapshot = "part_000" =>
    /\ fallback # <<>> => TransferCategorised(fallback[1])
    /\ result.value # <<>> => TransferCategorised(result.value[1])

\* part_000 has returned a merged transfer under another category
C12_Witness ==
  /\ call.snapshot = "part_000"
  /\ aiCall = "fulfilled"
  /\ timer = "cleared"
  /\ result.value # <<>>
  /\ result.value[1].type = "transfer"
  /\ result.value[1].categoryName # TRANSFER_CATEGORY

\* the await of the race was won by the response and its text was parsed: the
\* result is the merged one
Merged ==
  /\ aiCall = "fulfilled"
  /\ timer = "cleared"
  /\ ~ParseResponse(response[1]).throws

\* the mentions of the text decide the accounts of parsed
MentionsOverride(parsed, mentions) ==
  mentions # <<>> =>
    /\ parsed.accountName = mentions[1]
    /\ \A i \in DOMAIN mentions :
         (/\ parsed.type = "transfer"
          /\ mentions[i] # mentions[1]
          /\ \A j \in 1..(i - 1) : mentions[j] = mentions[1])
           => parsed.toAccountName = mentions[i]

\* C13: in the merge of parseTransactionAI, when the input text mentions
\* accounts, the accountName returned is the first mention whatever the remote
\* response and the fallback say, and for a merged type of transfer the
\* toAccountName returned is the first mention that differs from it, when there
\* is one.
C13_MentionsOverride ==
  Merged => MentionsOverride(result.value[1],
                             findAccountMentionsInText(call.input, call.accounts))

\* the response names the first mention as the target of a transfer and the
\* second mention is returned
C13_Witness ==
  /\ Merged
  /\ result.value[1].type = "transfer"
  /\ "toAccountName" \in ParseResponse(response[1]).has
  /\ ParseResponse(response[1]).val.toAccountName = result.value[1].accountName
  /\ Truthy(result.value[1].toAccountName)
  /\ result.value[1].toAccountName # result.value[1].accountName

\* the category of the fallback is kept over the one of the response
KeepsFallbackCategory(parsed, local, input) ==
  (/\ Truthy(local.categoryName)
   /\ \/ parsed.type = "income" /\ hasStrongIncomeHint(input)
      \/ parsed.type = "expense" /\ hasStrongExpenseHint(input))
    => parsed.categoryName = local.categoryName

\* C14: in the merge of part_000, when the merged type is income or expense, the
\* input holds a strong keyword of that type and the fallback has a category,
\* the categoryName returned is the one of the fallback and not the one of the
\* remote response.
C14_StrongKeywordGuard ==
  (Merged /\ call.snapshot = "part_000") =>
    KeepsFallbackCategory(result.value[1], fallback[1], call.input)

\* an income with a salary keyword: the response names another category and
\* the category of the fallback is returned
C14_Witness ==
  /\ Merged
  /\ call.snapshot = "part_000"
  /\ result.value[1].type = "income"
  /\ hasStrongIncomeHint(call.input)
  /\ "categoryName" \in ParseResponse(response[1]).has
  /\ ParseResponse(response[1]).val.categoryName # fallback[1].categoryName
  /\ Truthy(fallback[1].categoryName)
  /\ result.value[1].categoryName = fallback[1].categoryName

\* the text holds no numeral, no word of a relative day and no alias of an
\* account of the list
Stripped(description, accounts) ==
  /\ \A i \in DOMAIN description : description[i] \notin Digits
  /\ ~TestAlternativesI(description, RELATIVE_DAY_WORDS)
  /\ \A k \in DOMAIN accounts :
       \A n \in DOMAIN accountAliases(accounts[k]) :
         ~Includes(normalizeLoose(description), accountAliases(accounts[k])[n])

\* C17: in part_000 the description of every ParsedInput returned is the input
\* with the amounts, the dates and the account mentions stripped: it holds no
\* amount numeral, no date token and no name or alias of an account of the list.
C17_DescriptionStripped ==
  call.snapshot = "part_000" =>
    /\ fallback # <<>> =>
         (Truthy(fallback[1].description) => Stripped(fallback[1].description, call.accounts))
    /\ result.value # <<>> =>
         (Truthy(result.value[1].description)
            => Stripped(result.value[1].description, call.accounts))

\* the local parse of part_000 has given the text back as the description,
\* numeral included
C17_Witness ==
  /\ call.snapshot = "part_000"
  /\ fallback # <<>>
  /\ fallback[1].description = Trim(call.input)
  /\ \E i \in DOMAIN fallback[1].description : fallback[1].description[i] \in Digits

\* the year, month and day a matched date token names, the month and the day
\* padded with a zero to two digits
PaddedDate(year, token) ==
  LET sep == Min({i \in DOMAIN token : token[i] \in {"/", "-"}})
      month == SubSeq(token, 1, sep - 1)
      day == SubSeq(token, sep + 1, Len(token))
  IN year \o <<"-">> \o (IF Len(month) = 1 THEN <<"0">> \o month ELSE month)
          \o <<"-">> \o (IF Len(day) = 1 THEN <<"0">> \o day ELSE day)

\* today shifted back by one to three days
ShiftedDays(today) ==
  {getLocalDateString(DaysBefore(LocalDateOf(today, FALSE), k)) : k \in 1..3}

\* the date the first rule that applies to the text gives
DateByPriority(text, today, date) ==
  LET full == FirstMatch(text, FullDateLen)
      short == FirstMatch(text, ShortDateMonthLen)
  IN IF Includes(text, YESTERDAY) \/ Includes(text, DAY_BEFORE_YESTERDAY)
       THEN date \in ShiftedDays(today)
     ELSE IF full > 0
       THEN date = PaddedDate(SubSeq(text, full, full + 3),
                              SubSeq(text, full + 5, full + FullDateLen(text, full) - 1))
     ELSE IF short > 0
       THEN date = PaddedDate(SubSeq(today, 1, 4),
                              SubSeq(text, short,
                                     short + ShortDateMonthLen(text, short)
                                       + DigitRun(text, short + ShortDateMonthLen(text, short) + 1)))
     ELSE date = today

\* C18: the date of the local parse comes from exactly one rule, the first that
\* applies: a relative keyword shifts today; else a full date YYYY/M/D or
\* YYYY-M-D gives its year, month and day, zero-padded; else a short date M/D
\* gives the year of today with its month and day, zero-padded; else the date
\* is today.
C18_DatePriority ==
  localParse.done =>
    DateByPriority(Trim(localParse.input), localParse.today, localParse.parsed.date)

\* a text with a relative keyword and a full date has been parsed, and the date
\* is not the full date
C18_Witness ==
  /\ localParse.done
  /\ Includes(localParse.input, YESTERDAY)
  /\ FirstMatch(localParse.input, FullDateLen) > 0
  /\ localParse.parsed.date \in ShiftedDays(localParse.today)

\* the calendar day k days before the day the text today names
CalendarDaysBefore(today, k) ==
  getLocalDateString(DaysBefore([y |-> ParseDigits(SubSeq(today, 1, 4)),
                                 m |-> ParseDigits(SubSeq(today, 6, 7)),
                                 d |-> ParseDigits(SubSeq(today, 9, 10))], k))

\* C19: for every today and every offset of the local time zone, a text with
\* U6628 U5929 (yesterday) gets the date one calendar day before today, and a
\* text with U524D U5929 (the day before yesterday) and not the former gets the
\* date two calendar days before today.
C19_RelativeShift ==
  localParse.done =>
    /\ Includes(Trim(localParse.input), YESTERDAY)
         => localParse.parsed.date = CalendarDaysBefore(localParse.today, 1)
    /\ (~Includes(Trim(localParse.input), YESTERDAY)
        /\ Includes(Trim(localParse.input), DAY_BEFORE_YESTERDAY))
         => localParse.parsed.date = CalendarDaysBefore(localParse.today, 2)

\* west of UTC a text with U6628 U5929 has got the date two days before today
C19_Witness ==
  /\ localParse.done
  /\ localParse.behindUTC
  /\ Includes(localParse.input, YESTERDAY)
  /\ localParse.parsed.date = CalendarDaysBefore(localParse.today, 2)

\* a full date, YYYY/M/D or YYYY-M-D, that no digit touches
FullDateTokenLen(text, i) ==
  LET n == FullDateLen(text, i)
  IN IF n > 0 /\ ~IsDigitAt(text, i - 1) /\ ~IsDigitAt(text, i + n) THEN n ELSE 0

\* a short date, M/D or M-D, that no digit touches
ShortDateTokenLen(text, i) ==
  LET m == ShortDateMonthLen(text, i)
  IN IF m > 0 THEN m + 1 + DigitRun(text, i + m + 1) ELSE 0

\* the text without its dates
WithoutDates(text) == ReplaceAll(ReplaceAll(text, FullDateTokenLen), ShortDateTokenLen)

\* the amount is the first numeral of the rest, absent when the rest has none
AmountOutsideDates(rest, amount) ==
  LET at == FirstMatch(rest, NumeralLen)
  IN IF at = 0 THEN amount = NoAmount
     ELSE amount = NumberOf(SubSeq(rest, at, at + NumeralLen(rest, at) - 1))

\* C20: for every text that holds a date (YYYY/M/D, YYYY-M-D or a short M/D)
\* the amount of the local parse of part_000 is the first numeral outside the
\* dates, never a numeral of a date, and is absent when no numeral is left
\* outside the dates.
C20_AmountDateNonInterference ==
  (localParse.done /\ localParse.snapshot = "part_000"
     /\ WithoutDates(Trim(localParse.input)) # Trim(localParse.input))
    => AmountOutsideDates(WithoutDates(Trim(localParse.input)), localParse.parsed.amount)

\* the short date 3-5 with a Latin word right after it has been parsed together
\* with the amount 18, and the amount is the month of the date
C20_Witness ==
  /\ localParse.done
  /\ localParse.snapshot = "part_000"
  /\ localParse.input = <<"3", "-", "5", "t", "e", "a", "1", "8">>
  /\ localParse.parsed.date = <<"2", "0", "2", "4", "-", "0", "3", "-", "0", "5">>
  /\ localParse.parsed.amount = [whole |-> 3, frac |-> <<>>]

\* the step is a manual pick of a category, of a source or of a target account
PicksCategory == \E k \in DOMAIN FormCategories : PickCategory(FormCategories[k].name)
PicksAccount == \E k \in DOMAIN FormAccounts : PickAccount(FormAccounts[k])
PicksToAccount == \E k \in DOMAIN FormAccounts : PickToAccount(FormAccounts[k])

\* a field whose flag stays set changes only by a manual pick; the category
\* also gives way to the first one of a new type that does not allow it
ManualPicksKept ==
  /\ (form.userAdjustedCategory /\ form'.userAdjustedCategory /\ ~PicksCategory)
       => form'.category = CategoryEffect([form EXCEPT !.type = form'.type]).category
  /\ (form.userAdjustedAccount /\ form'.userAdjustedAccount /\ ~PicksAccount)
       => form'.accountId = form.accountId
  /\ (form.userAdjustedToAccount /\ form'.userAdjustedToAccount /\ ~PicksToAccount)
       => form'.toAccountId = form.toAccountId

\* C15: once the user has manually picked a category, a source account or a
\* target account, no learned hit overwrites that field until the description
\* changes or the form is submitted (both reset the flag): as long as the flag
\* of a field stays set, no step but a manual pick of that field changes it.
C15_ManualPicksSurviveLearnedHits == [][ManualPicksKept]_vars

\* the prefill has found a learned preference whose category and source account
\* differ from the ones the user picked, and the picked ones are in the form
C15_Witness ==
  /\ formLoaded
  /\ form.learned # <<>>
  /\ form.userAdjustedCategory
  /\ form.userAdjustedAccount
  /\ form.category # ensureCategoryForType(FormCategories, form.type, form.learned[1].category)
  /\ form.accountId # form.learned[1].accountId

\* 0.7 * similarity + 0.2 * recency + 0.1 * usage, of rationals
BlendedScore(similarity, recency, usage) ==
  RatReduce(<< 7 * similarity[1] * recency[2] * usage[2]
                 + 2 * recency[1] * similarity[2] * usage[2]
                 + usage[1] * similarity[2] * recency[2],
               10 * similarity[2] * recency[2] * usage[2] >>)

\* the blended score of the entry under a key of the type: the similarity of
\* the descriptions, the share of the 45 days still ahead of the entry, and the
\* count of its uses out of 8
ScoreOfEntry(entry, type, description, time) ==
  LET age == time - entry.pref.updatedAt
  IN BlendedScore(scoreDescriptionSimilarity(normalizeDesc(description),
                                             SubSeq(entry.key, Len(TypeText(type)) + 3,
                                                    Len(entry.key))),
                  <<IF age >= 45 THEN 0 ELSE 45 - age, 45>>,
                  <<IF entry.pref.useCount >= 8 THEN 8 ELSE entry.pref.useCount, 8>>)

\* the entries whose key has the prefix of the type
SameTypeEntries(prefs, type) ==
  {k \in DOMAIN prefs :
     /\ Len(prefs[k].key) >= Len(TypeText(type)) + 2
     /\ SubSeq(prefs[k].key, 1, Len(TypeText(type)) + 2) = TypeText(type) \o <<":", ":">>}

\* the record under the exact key when there is one; else a record of the same
\* type with the highest blended score when that score is at least 0.55; else
\* nothing
LearnedAsStated(prefs, type, description, time, learned) ==
  LET key == TypeText(type) \o <<":", ":">> \o normalizeDesc(description)
      same == SameTypeEntries(prefs, type)
  IN IF \E k \in DOMAIN prefs : prefs[k].key = key
       THEN \E k \in DOMAIN prefs : prefs[k].key = key /\ learned = <<prefs[k].pref>>
     ELSE IF \E k \in same : RatGeq(ScoreOfEntry(prefs[k], type, description, time), <<11, 20>>)
       THEN \E k \in same :
              /\ learned = <<prefs[k].pref>>
              /\ \A j \in same : RatGeq(ScoreOfEntry(prefs[k], type, description, time),
                                        ScoreOfEntry(prefs[j], type, description, time))
     ELSE learned = <<>>

\* C16: findLearnedPref gives the record under the exact key (type and
\* normalized description) whenever there is one; otherwise it looks only at
\* the keys with the prefix of the type and gives the record with the highest
\* score 0.7 * similarity + 0.2 * recency + 0.1 * usage if that score is at
\* least 0.55, and nothing otherwise. Stated of the lookup of the prefill of
\* the form.
C16_FindLearnedPref ==
  Len(Trim(form.description)) >= 2
    => LearnedAsStated(learnedPrefs, form.type, Trim(form.description), now, form.learned)

\* the lookup has found no exact key and has given the best of two records of
\* the type, which is not the first of them
C16_Witness ==
  /\ Len(Trim(form.description)) >= 2
  /\ form.learned # <<>>
  /\ ~HasKey(learnedPrefs, makePrefKey(form.type, Trim(form.description)))
  /\ \E j, k \in SameTypeEntries(learnedPrefs, form.type) :
       /\ j < k
       /\ form.learned = <<learnedPrefs[k].pref>>
       /\ RatLess(ScoreOfEntry(learnedPrefs[j], form.type, Trim(form.description), now),
                  ScoreOfEntry(learnedPrefs[k], form.type, Trim(form.description), now))

\* the text is one of the aliases of the account
IsAliasOf(text, name) ==
  \E n \in DOMAIN accountAliases(name) : accountAliases(name)[n] = text

\* C21: when the text is an alias of an account A of the list and of no other
\* account of the list, findAccountMentionsInText of that text alone gives A
\* first.
C21_AliasSymmetry ==
  applied.fn = "findAccountMentionsInText" =>
    \A k \in DOMAIN applied.accounts :
      (/\ IsAliasOf(applied.text, applied.accounts[k])
       /\ \A j \in DOMAIN applied.accounts :
            applied.accounts[j] # applied.accounts[k]
              => ~IsAliasOf(applied.text, applied.accounts[j]))
        => (applied.value # <<>> /\ applied.value[1] = applied.accounts[k])

\* the text is an alias of the last account only, an earlier account has an
\* alias the text includes, and the last account has come first
C21_Witness ==
  /\ applied.fn = "findAccountMentionsInText"
  /\ Len(applied.accounts) = 3
  /\ IsAliasOf(applied.text, applied.accounts[3])
  /\ ~IsAliasOf(applied.text, applied.accounts[2])
  /\ \E n \in DOMAIN accountAliases(applied.accounts[2]) :
       Includes(applied.text, accountAliases(applied.accounts[2])[n])
  /\ Len(applied.value) >= 2
  /\ applied.value[1] = applied.accounts[3]

\* C22: normalizing a normalized text changes nothing:
\* normalizeLoose(normalizeLoose(s)) = normalizeLoose(s) and
\* normalizeDesc(normalizeDesc(s)) = normalizeDesc(s) for every text s.
C22_NormalizationIdempotent ==
  /\ applied.fn = "normalizeLoose" => normalizeLoose(applied.value) = applied.value
  /\ applied.fn = "normalizeDesc" => normalizeDesc(applied.value) = applied.value

\* a text with a capital letter, a space or a punctuation mark has been
\* normalized to another, non-empty text
C22_Witness ==
  /\ applied.fn \in {"normalizeLoose", "normalizeDesc"}
  /\ applied.value # applied.text
  /\ applied.value # <<>>
  /\ \E i \in DOMAIN applied.text : applied.text[i] \in PunctChars \cup WhiteSpace
  /\ \E i \in DOMAIN applied.text : applied.text[i] = "A"

\* the keyword groups of an income in the order the code tries them, each with
\* the pattern its category is picked by
IncomeGroups ==
  << [keywords |-> SALARY_KEYWORDS, pattern |-> SALARY_PATTERN],
     [keywords |-> BONUS_KEYWORDS, pattern |-> BONUS_PATTERN],
     [keywords |-> INVEST_KEYWORDS, pattern |-> INVEST_PATTERN] >>

ApplicableIncomeGroups(text) ==
  {g \in DOMAIN IncomeGroups : hasAnyKeyword(text, IncomeGroups[g].keywords)}

\* C23: for an income and a non-empty list of candidate categories,
\* inferCategoryFromText never returns absent: it returns the first category the
\* text includes, else the first category matching the first applicable keyword
\* group, else the first category of the list.
C23_IncomeCategoryNeverAbsent ==
  (applied.fn = "inferCategoryFromText" /\ applied.type = "income"
     /\ applied.categories # <<>>)
    => LET categories == applied.categories
           direct == {i \in DOMAIN categories : Includes(applied.text, categories[i])}
           groups == ApplicableIncomeGroups(applied.text)
       IN /\ applied.value # Undefined
          /\ direct # {} => applied.value = categories[Min(direct)]
          /\ (direct = {} /\ groups = {}) => applied.value = categories[1]
          /\ (direct = {} /\ groups # {}) =>
               LET matching == {i \in DOMAIN categories :
                                  TestAlternativesI(categories[i], IncomeGroups[Min(groups)].pattern)}
               IN matching # {} => applied.value = categories[Min(matching)]

\* 獎金 (a bonus keyword) has been looked up among 薪資 and 其他, none of which
\* matches the bonus pattern, and the result is absent
C23_Witness ==
  /\ applied.fn = "inferCategoryFromText"
  /\ applied.type = "income"
  /\ applied.text = <<"U734E", "U91D1">>
  /\ applied.categories = << <<"U85AA", "U8CC7">>, <<"U5176", "U4ED6">> >>
  /\ applied.value = Undefined

\* C24: getAccountHintBoost penalizes a candidate that signals a bank when the
\* input signals cash (the boost is negative, so the score is lowered), and
\* boosts the candidate (the boost is positive) when both signal cash, or both
\* signal a bank and the candidate is not cash-like.
C24_HintBoost ==
  applied.fn = "getAccountHintBoost" =>
    LET inputCash == hasAnyToken(applied.inputNormalized, CASH_HINT_KEYWORDS)
        inputBank == hasAnyToken(applied.inputNormalized, BANK_HINT_KEYWORDS)
        accountCash == hasAnyToken(applied.accountNormalized, CASH_HINT_KEYWORDS)
        accountBank == hasAnyToken(applied.accountNormalized, BANK_HINT_KEYWORDS)
    IN /\ (inputCash /\ ~inputBank /\ accountBank /\ ~accountCash)
            => RatLess(applied.value, <<0, 1>>)
       /\ ((inputCash /\ accountCash) \/ (inputBank /\ accountBank /\ ~accountCash))
            => RatLess(<<0, 1>>, applied.value)

\* the boost of 銀行帳戶 for the input 現金 has been computed, and it is 0
C24_Witness ==
  /\ applied.fn = "getAccountHintBoost"
  /\ applied.inputNormalized = <<"U73FE", "U91D1">>
  /\ applied.accountNormalized = <<"U9280", "U884C", "U5E33", "U6236">>
  /\ applied.value = <<0, 1>>

\* the fallback the statement describes: the two highest-scoring mentioned
\* accounts, the one that comes first in the text as the source.  mentions are
\* by descending score, scores and indexes are by position in accounts.
TwoHighestInTextOrder(value, accounts, mentions, score, indexes) ==
  LET at(name) == CHOOSE i \in DOMAIN accounts : accounts[i] = name
      first == at(mentions[1])
      second == at(mentions[2])
      clearTopTwo ==
        Len(mentions) = 2 \/ RatLess(score[at(mentions[3])], score[second])
  IN clearTopTwo =>
       /\ {value.from, value.to} = {mentions[1], mentions[2]}
       /\ (indexes[first] # {} /\ indexes[second] # {}
             /\ Min(indexes[first]) # Min(indexes[second]))
            => value.from = (IF Min(indexes[first]) < Min(indexes[second])
                               THEN mentions[1] ELSE mentions[2])

\* C25: extractTransferAccounts splits the text at the last direction connector
\* and takes the source from the left side and the target from the right side;
\* when neither side yields a match it falls back to the two highest-scoring
\* mentioned accounts in text order, the first as source and the second as
\* target.
C25_TransferAccounts ==
  applied.fn = "extractTransferAccounts" =>
    LET text == applied.text
        accounts == applied.accounts
        index == LastConnectorIndex(text)
        fromByLeft == findBestAccountMatch(SliceTo(text, index), accounts)
        toByRight == findBestAccountMatch(SliceFrom(text, index + 1), accounts)
        mentions == findAccountMentionsInText(text, accounts)
    IN IF index >= 0 /\ (Truthy(fromByLeft) \/ Truthy(toByRight))
         THEN applied.value = [from |-> fromByLeft, to |-> toByRight]
       ELSE Len(mentions) >= 2 =>
              TwoHighestInTextOrder(applied.value, accounts, mentions,
                                    AccountScores(normalizeLoose(text), accounts),
                                    AccountIndexes(normalizeLoose(text), accounts))

\* 現金國泰證國泰世華 holds no connector and mentions three accounts; the source
\* and the target are the first two in the text, 現金 and 國泰證券, while
\* 國泰世華銀行 scores highest
C25_Witness ==
  /\ applied.fn = "extractTransferAccounts"
  /\ applied.text = <<"U73FE", "U91D1", "U570B", "U6CF0", "U8B49", "U570B", "U6CF0", "U4E16", "U83EF">>
  /\ Len(applied.accounts) = 3
  /\ applied.value = [from |-> applied.accounts[1], to |-> applied.accounts[2]]
  /\ findAccountMentionsInText(applied.text, applied.accounts)
       = <<applied.accounts[3], applied.accounts[2], applied.accounts[1]>>

\* C26: once parseTransactionAI has resolved after issuing a remote call,
\* whether the call succeeded, was rejected or answered with a malformed
\* response, the timeout timer is no longer pending: it has fired or it has been
\* cleared.
C26_TimerSettledOnReturn ==
  (result.state # "pending" /\ remoteCalls > 0) => timer \in {"fired", "cleared"}

\* the remote call has been rejected, the promise is fulfilled with the
\* fallback, and the timer is still running
C26_Witness ==
  /\ result = Fulfilled(fallback)
  /\ remoteCalls > 0
  /\ aiCall = "rejected"
  /\ timer = "pending"

\* a callback of the debounced parse has got its result in this step
ResolvedCalls == prefillCalls \ prefillCalls'

\* the step leaves the fields the user has picked, and every field when the
\* description is no longer the one the parse was requested for
StaleResultDropped ==
  \A c \in ResolvedCalls :
    /\ c.desc # Trim(form.description)
         => /\ form'.category = form.category
            /\ form'.accountId = form.accountId
            /\ form'.toAccountId = form.toAccountId
    /\ (form.userAdjustedCategory /\ ~c.userAdjustedCategory)
         => form'.category = form.category
    /\ (form.userAdjustedAccount /\ ~c.userAdjustedAccount)
         => form'.accountId = form.accountId
    /\ (form.userAdjustedToAccount /\ ~c.userAdjustedToAccount)
         => form'.toAccountId = form.toAccountId

\* C27: in the debounced prefill of TransactionForm a result of
\* parseTransactionAI that was requested before the user picked an account or a
\* category by hand, or before the description changed, never overwrites the
\* field the user picked after the request and is never applied to a later
\* description.
C27_StaleParseDropped == [][StaleResultDropped]_vars

\* the parse of 午餐 is awaited by a callback whose closure holds no adjusted
\* category, and the user has since picked 其他 by hand
C27_Witness ==
  /\ form.userAdjustedCategory
  /\ form.category = OTHER_CATEGORY
  /\ \E c \in prefillCalls :
       /\ ~c.userAdjustedCategory
       /\ c.desc = <<"U5348", "U9910">>
       /\ c.desc = Trim(form.description)
       /\ \E parsed \in ParseOutcomes(c.desc) :
            AppliedResult(form, c, parsed).category # form.category

\* the remote call won the race and its text parsed to an object without fields
EmptyObjectMerged ==
  /\ pc = "returned"
  /\ aiCall = "fulfilled"
  /\ timer = "cleared"
  /\ response # <<>>
  /\ ~ParseResponse(response[1]).throws
  /\ ParseResponse(response[1]).has = {}

\* C28: when the remote call succeeds with a JSON object that supplies no
\* fields, the type, amount, date, accountName, toAccountName, categoryName and
\* description of the ParsedInput parseTransactionAI returns equal those of the
\* local fallback.
C28_EmptyAnswerIsFallback ==
  EmptyObjectMerged =>
    /\ result.state = "fulfilled"
    /\ \A f \in ParsedInputFields : result.value[1][f] = fallback[1][f]

\* an empty answer has been merged for a transfer, and the returned target is
\* not the target of the fallback
C28_Witness ==
  /\ EmptyObjectMerged
  /\ result.state = "fulfilled"
  /\ fallback[1].type = "transfer"
  /\ Truthy(fallback[1].toAccountName)
  /\ result.value[1].toAccountName # fallback[1].toAccountName
  /\ \A f \in ParsedInputFields \ {"accountName", "toAccountName"} :
       result.value[1][f] = fallback[1][f]

\* the type of the category of that name in Categories, "none" when it has none
CategoryTypeOf(name) ==
  LET k == CHOOSE i \in DOMAIN Categories : Categories[i].name = name
  IN Categories[k].type

\* the returned categoryName is the one of the fallback: the fallback itself was
\* returned, the answer supplied no categoryName, or the guard forced it
CategoryFromFallback ==
  /\ pc = "returned"
  /\ result.state = "fulfilled"
  /\ result.value # <<>>
  /\ Truthy(result.value[1].categoryName)
  /\ result.value[1].categoryName = fallback[1].categoryName
  /\ \/ result.value = fallback
     \/ /\ response # <<>>
        /\ \/ "categoryName" \notin ParseResponse(response[1]).has
           \/ Truthy(forcedCategoryName(call.snapshot, call.input,
                                        SpreadOver(fallback[1], ParseResponse(response[1])),
                                        fallback[1]))

\* C29: in every ParsedInput parseTransactionAI of part_000 returns with the
\* type income or expense and a categoryName taken from the local fallback, also
\* one forced by the strong-keyword guard, the category has no type or the
\* returned type.
C29_FallbackCategoryFitsType ==
  (call.snapshot = "part_000" /\ CategoryFromFallback
     /\ result.value[1].type \in {"income", "expense"})
    => CategoryTypeOf(result.value[1].categoryName) \in {"none", result.value[1].type}

\* 薪水午餐 is an income with the category 薪資 for the fallback; the answer
\* makes it an expense of the category 其他, and the guard, finding the expense
\* keyword 午餐, has forced 薪資, an income category, on the returned expense
C29_Witness ==
  /\ call.snapshot = "part_000"
  /\ CategoryFromFallback
  /\ call.input = <<"U85AA", "U6C34", "U5348", "U9910">>
  /\ fallback[1].type = "income"
  /\ result.value[1].type = "expense"
  /\ "categoryName" \in ParseResponse(response[1]).has
  /\ result.value[1].categoryName = <<"U85AA", "U8CC7">>

\* the normalized description of the key of an entry of the type
SavedNormalized(entry, type) == SliceFrom(entry.key, Len(TypeText(type)) + 2)

\* the lookup took the fuzzy branch (no record under the exact key) and no
\* record is dated after the time of the lookup
FuzzyLookupOfThePast ==
  /\ applied.fn = "findLearnedPref"
  /\ ~HasKey(applied.prefs, makePrefKey(applied.type, applied.description))
  /\ \A i \in DOMAIN applied.prefs : applied.prefs[i].pref.updatedAt <= applied.now

\* C30: when every stored updatedAt is at or before the current time, the fuzzy
\* branch of findLearnedPref never returns a record whose normalized description
\* shares no character with the normalized input, whatever its useCount and its
\* age: recency and usage add up to 0.3 at most, below the cutoff of 0.55.
C30_FuzzyNeedsSharedCharacter ==
  (FuzzyLookupOfThePast /\ applied.value # <<>>)
    => \E i \in DOMAIN applied.prefs :
         /\ applied.prefs[i].pref = applied.value[1]
         /\ CharSet(SavedNormalized(applied.prefs[i], applied.type))
              \cap CharSet(normalizeDesc(applied.description)) # {}

\* the map holds a record updated now and used eight times whose description
\* shares no character with the looked-up one, and no exact record: the lookup
\* has not returned it
C30_Witness ==
  /\ FuzzyLookupOfThePast
  /\ \E i \in DOMAIN applied.prefs :
       /\ applied.prefs[i].pref.updatedAt = applied.now
       /\ applied.prefs[i].pref.useCount = USAGE_CAP
       /\ CharSet(SavedNormalized(applied.prefs[i], applied.type))
            \cap CharSet(normalizeDesc(applied.description)) = {}
       /\ applied.value # <<applied.prefs[i].pref>>
       /\ PrefScore(normalizeDesc(applied.description), applied.prefs[i], applied.type,
                    applied.now) = <<3, 10>>

====
